---- MODULE Spec2Model ----
(***************************************************************************)
(* The game simulation engine of Neon Drop: the phase state machine of     *)
(* GameEngine (src/game-engine.js), the pure collision rules of            *)
(* physics-pure.js (src/unnamed/part_002) and the SeededRandom generator.  *)
(*                                                                         *)
(* Conventions.                                                            *)
(*  - Time is counted in hundredths of a millisecond, so that the replay   *)
(*    tick of 16.67 ms is the integer 1667.                                *)
(*  - A JavaScript array is a sequence; the 0-based index i of the source  *)
(*    is the 1-based index i+1 here (row y of the board is board[y+1]).    *)
(*  - null is the string "null" for a board cell and the record NullPiece  *)
(*    for a piece.                                                         *)
(*  - A number that may exceed 2^31 (a Date.now() value, a generator       *)
(*    state) is a pair <<h, l>> standing for h * 2^16 + l.                 *)
(*  - The fields variant, uniqueId, generation and the sound and console   *)
(*    calls are presentation only and are left out.                        *)
(***************************************************************************)
EXTENDS Integers, Sequences, FiniteSets, TLC

\* ------------------------------------------------------------------ constants

WIDTH == 10
HEIGHT == 20
ABOVE_ROWS == 2

LOCK_DELAY == 50000
LOCK_DELAY_FLOAT == 60000
LOCK_DELAY_DANGER == 100000
MAX_LOCK_TIME == 500000
CLEAR_ANIMATION_TIME == 30000

SOFT_DROP == 1
HARD_DROP == 2
LINE_VALUES == <<0, 100, 300, 500, 800>>
LINES_PER_LEVEL == 10
COMBO_VALUE == 50
MILESTONE == 3000
FLOAT_BUDGET == 7
REPLAY_TICK == 1667

STANDARD == <<"I", "J", "L", "O", "S", "T", "Z">>
SPECIAL == <<"FLOAT", "PLUS", "U", "DOT">>
TYPES == <<"I", "J", "L", "O", "S", "T", "Z", "FLOAT", "PLUS", "U", "DOT">>
StartingPieces == <<"I", "J", "L", "O", "S", "T", "Z", "FLOAT">>
piecesToUnlock == <<"PLUS", "U", "DOT">>

null == "null"

Range(s) == {s[i] : i \in DOMAIN s}

PIECE_DEFINITIONS(type) ==
    CASE type = "I" -> [shape |-> << <<0,0,0,0>>, <<1,1,1,1>>, <<0,0,0,0>>, <<0,0,0,0>> >>,
                        color |-> "#00FFFF", x |-> 3, y |-> -2]
      [] type = "J" -> [shape |-> << <<1,0,0>>, <<1,1,1>>, <<0,0,0>> >>,
                        color |-> "#0000FF", x |-> 3, y |-> -2]
      [] type = "L" -> [shape |-> << <<0,0,1>>, <<1,1,1>>, <<0,0,0>> >>,
                        color |-> "#FF7F00", x |-> 3, y |-> -2]
      [] type = "O" -> [shape |-> << <<1,1>>, <<1,1>> >>,
                        color |-> "#FFFF00", x |-> 4, y |-> -2]
      [] type = "S" -> [shape |-> << <<0,1,1>>, <<1,1,0>>, <<0,0,0>> >>,
                        color |-> "#00FF00", x |-> 3, y |-> -2]
      [] type = "T" -> [shape |-> << <<0,1,0>>, <<1,1,1>>, <<0,0,0>> >>,
                        color |-> "#8A2BE2", x |-> 3, y |-> -2]
      [] type = "Z" -> [shape |-> << <<1,1,0>>, <<0,1,1>>, <<0,0,0>> >>,
                        color |-> "#FF0000", x |-> 3, y |-> -2]
      [] type = "FLOAT" -> [shape |-> << <<1>> >>,
                        color |-> "#FFFFFF", x |-> 4, y |-> -1]
      [] type = "PLUS" -> [shape |-> << <<0,1,0>>, <<1,1,1>>, <<0,1,0>> >>,
                        color |-> "#FFD700", x |-> 3, y |-> -3]
      [] type = "U" -> [shape |-> << <<1,0,1>>, <<1,0,1>>, <<1,1,1>> >>,
                        color |-> "#FF69B4", x |-> 3, y |-> -3]
      [] type = "DOT" -> [shape |-> << <<1,1,0>>, <<1,0,1>>, <<0,1,1>> >>,
                        color |-> "#00CED1", x |-> 3, y |-> -3]

NullPiece ==
    [type |-> null, shape |-> <<>>, color |-> null, gridX |-> 0, gridY |-> 0,
     rotation |-> 0, upMovesUsed |-> 0]

\* createPiece(type): the piece of a kind at its spawn cell.
createPiece(type) ==
    LET def == PIECE_DEFINITIONS(type)
    IN [type |-> type, shape |-> def.shape, color |-> def.color,
        gridX |-> def.x, gridY |-> def.y, rotation |-> 0, upMovesUsed |-> 0]

EmptyRow == [c \in 1..WIDTH |-> null]
EmptyBoard == [r \in 1..HEIGHT |-> EmptyRow]

\* ------------------------------------------------------------- physics-pure.js

\* The occupied cells of a shape, as <<dx, dy>> offsets (0-based).
ShapeCells(shape) ==
    {<<dx, dy>> \in (0..(Len(shape) - 1)) \X (0..(Len(shape) - 1)) :
        shape[dy + 1][dx + 1] # 0}

\* The test of one cell with the top row of the board left out of the collision
\* check.
CellFitsBelowTopRow(board, boardX, boardY) ==
    /\ ~(boardX < 0 \/ boardX >= WIDTH)
    /\ ~(boardY < -ABOVE_ROWS)
    /\ ~(boardY >= HEIGHT)
    /\ (boardY > 0 =>
          ((boardY < Len(board) /\ boardX < Len(board[boardY + 1]))
              => board[boardY + 1][boardX + 1] = null))

\* One occupied cell of a piece placed at (x, y) passes the fit test.
CellFits(board, boardX, boardY) ==
    /\ ~(boardX < 0 \/ boardX >= WIDTH)
    /\ ~(boardY < -ABOVE_ROWS)
    /\ ~(boardY >= HEIGHT)
    /\ (boardY >= 0 =>
          ((boardY < Len(board) /\ boardX < Len(board[boardY + 1]))
              => board[boardY + 1][boardX + 1] = null))

canPieceFitAt(board, piece, x, y) ==
    /\ piece.type # null
    /\ \A c \in ShapeCells(piece.shape) : CellFits(board, x + c[1], y + c[2])

RECURSIVE ShadowFrom(_, _, _)
ShadowFrom(board, piece, shadowY) ==
    IF shadowY < HEIGHT /\ canPieceFitAt(board, piece, piece.gridX, shadowY + 1)
    THEN ShadowFrom(board, piece, shadowY + 1)
    ELSE shadowY

calculateShadow(board, piece) == ShadowFrom(board, piece, piece.gridY)

rotatePiece(piece, direction) ==
    LET n == Len(piece.shape)
        rotated == [i \in 1..n |-> [j \in 1..n |->
                      IF direction = 1
                      THEN piece.shape[n + 1 - j][i]
                      ELSE piece.shape[j][n + 1 - i]]]
    IN [piece EXCEPT !.shape = rotated,
                     !.rotation = (piece.rotation + direction + 4) % 4]

Kick(x, y) == [x |-> x, y |-> y]

KicksI(fromRot, toRot) ==
    CASE fromRot = 0 /\ toRot = 1 -> <<Kick(-2,0), Kick(1,0), Kick(-2,-1), Kick(1,2)>>
      [] fromRot = 1 /\ toRot = 0 -> <<Kick(2,0), Kick(-1,0), Kick(2,1), Kick(-1,-2)>>
      [] fromRot = 1 /\ toRot = 2 -> <<Kick(-1,0), Kick(2,0), Kick(-1,2), Kick(2,-1)>>
      [] fromRot = 2 /\ toRot = 1 -> <<Kick(1,0), Kick(-2,0), Kick(1,-2), Kick(-2,1)>>
      [] fromRot = 2 /\ toRot = 3 -> <<Kick(2,0), Kick(-1,0), Kick(2,1), Kick(-1,-2)>>
      [] fromRot = 3 /\ toRot = 2 -> <<Kick(-2,0), Kick(1,0), Kick(-2,-1), Kick(1,2)>>
      [] fromRot = 3 /\ toRot = 0 -> <<Kick(1,0), Kick(-2,0), Kick(1,-2), Kick(-2,1)>>
      [] fromRot = 0 /\ toRot = 3 -> <<Kick(-1,0), Kick(2,0), Kick(-1,2), Kick(2,-1)>>
      [] OTHER -> <<>>

KicksDefault(fromRot, toRot) ==
    CASE fromRot = 0 /\ toRot = 1 -> <<Kick(-1,0), Kick(-1,1), Kick(0,-2), Kick(-1,-2)>>
      [] fromRot = 1 /\ toRot = 0 -> <<Kick(1,0), Kick(1,-1), Kick(0,2), Kick(1,2)>>
      [] fromRot = 1 /\ toRot = 2 -> <<Kick(1,0), Kick(1,-1), Kick(0,2), Kick(1,2)>>
      [] fromRot = 2 /\ toRot = 1 -> <<Kick(-1,0), Kick(-1,1), Kick(0,-2), Kick(-1,-2)>>
      [] fromRot = 2 /\ toRot = 3 -> <<Kick(1,0), Kick(1,1), Kick(0,-2), Kick(1,-2)>>
      [] fromRot = 3 /\ toRot = 2 -> <<Kick(-1,0), Kick(-1,-1), Kick(0,2), Kick(-1,2)>>
      [] fromRot = 3 /\ toRot = 0 -> <<Kick(-1,0), Kick(-1,-1), Kick(0,2), Kick(-1,2)>>
      [] fromRot = 0 /\ toRot = 3 -> <<Kick(1,0), Kick(1,1), Kick(0,-2), Kick(1,-2)>>
      [] OTHER -> <<>>

getWallKicks(piece, direction) ==
    LET fromRot == piece.rotation
        toRot == (piece.rotation + direction + 4) % 4
    IN IF piece.type = "I" THEN KicksI(fromRot, toRot) ELSE KicksDefault(fromRot, toRot)

\* tryRotation that keeps the last offset that fits, not the first.
tryRotationLastKick(board, piece, direction) ==
    LET rotated == rotatePiece(piece, direction)
        kicks == getWallKicks(piece, direction)
        fits(i) == canPieceFitAt(board, rotated, rotated.gridX + kicks[i].x,
                                 rotated.gridY + kicks[i].y)
        ok == {i \in DOMAIN kicks : fits(i)}
    IN IF canPieceFitAt(board, rotated, rotated.gridX, rotated.gridY)
       THEN [success |-> TRUE, piece |-> rotated]
       ELSE IF piece.type = "O" \/ ok = {}
       THEN [success |-> FALSE, piece |-> NullPiece]
       ELSE LET i == CHOOSE k \in ok : \A m \in ok : k >= m
            IN [success |-> TRUE,
                piece |-> [rotated EXCEPT !.gridX = rotated.gridX + kicks[i].x,
                                          !.gridY = rotated.gridY + kicks[i].y]]

\* tryRotation: [success, piece]; piece is NullPiece on failure.
tryRotation(board, piece, direction) ==
    LET rotated == rotatePiece(piece, direction)
        kicks == getWallKicks(piece, direction)
        fits(i) == canPieceFitAt(board, rotated, rotated.gridX + kicks[i].x,
                                 rotated.gridY + kicks[i].y)
        ok == {i \in DOMAIN kicks : fits(i)}
    IN IF canPieceFitAt(board, rotated, rotated.gridX, rotated.gridY)
       THEN [success |-> TRUE, piece |-> rotated]
       ELSE IF piece.type = "O" \/ ok = {}
       THEN [success |-> FALSE, piece |-> NullPiece]
       ELSE LET i == CHOOSE k \in ok : \A m \in ok : k <= m
            IN [success |-> TRUE,
                piece |-> [rotated EXCEPT !.gridX = rotated.gridX + kicks[i].x,
                                          !.gridY = rotated.gridY + kicks[i].y]]

\* placePiece that writes the kind of the piece where its colour belongs.
placePieceWritesKind(board, piece) ==
    [r \in 1..Len(board) |-> [c \in 1..Len(board[r]) |->
        IF <<c - 1 - piece.gridX, r - 1 - piece.gridY>> \in ShapeCells(piece.shape)
        THEN piece.type
        ELSE board[r][c]]]


placePiece(board, piece) ==
    [r \in 1..Len(board) |-> [c \in 1..Len(board[r]) |->
        IF <<c - 1 - piece.gridX, r - 1 - piece.gridY>> \in ShapeCells(piece.shape)
        THEN piece.color
        ELSE board[r][c]]]

\* findClearedLines: the 0-based indices of the full rows, top to bottom.
RECURSIVE FullRowsFrom(_, _)
FullRowsFrom(board, r) ==
    IF r > Len(board) THEN <<>>
    ELSE (IF \A c \in DOMAIN board[r] : board[r][c] # null THEN <<r - 1>> ELSE <<>>)
         \o FullRowsFrom(board, r + 1)

\* findClearedLines that reports the lowest full row only.
findClearedLinesLowest(board) ==
    LET full == FullRowsFrom(board, 1)
    IN IF full = <<>> THEN <<>> ELSE <<full[Len(full)]>>


findClearedLines(board) == FullRowsFrom(board, 1)

RECURSIVE KeepRowsFrom(_, _, _)
KeepRowsFrom(board, lines, r) ==
    IF r > Len(board) THEN <<>>
    ELSE (IF (r - 1) \in Range(lines) THEN <<>> ELSE <<board[r]>>)
         \o KeepRowsFrom(board, lines, r + 1)

RECURSIVE PadTop(_)
PadTop(rows) == IF Len(rows) < HEIGHT THEN PadTop(<<EmptyRow>> \o rows) ELSE rows

\* removeClearedLines that adds the empty rows below the rows it keeps.
removeClearedLinesPadBottom(board, lines) ==
    LET kept == KeepRowsFrom(board, lines, 1)
    IN kept \o [r \in 1..(HEIGHT - Len(kept)) |-> EmptyRow]

removeClearedLines(board, lines) == PadTop(KeepRowsFrom(board, lines, 1))

canSpawn(board, piece) == canPieceFitAt(board, piece, piece.gridX, piece.gridY)

\* ------------------------------------------------------------- SeededRandom

\* Big(h, l) stands for h * 2^16 + l.
Big(h, l) == <<h, l>>

\* Date.now() at wall-clock offset `clock` (ms) from the epoch of the run,
\* 1793534400000 = 27367163 * 2^16 + 5632.
DateNow(clock) ==
    Big(27367163 + (5632 + clock) \div 65536, (5632 + clock) % 65536)

\* new SeededRandom(seed): this.state = seed.
SeededRandom(seed) == seed

\* state * 1664525 mod 2^32, for the low 32 bits of state
\* (1664525 = 25 * 2^16 + 26125).
MulA(s) ==
    LET h == s[1] % 65536
        l == s[2]
        low == 26125 * l
    IN Big((26125 * h + 25 * l + low \div 65536) % 65536, low % 65536)

\* x + y mod 2^32.
Add32(x, y) ==
    Big((x[1] + y[1] + (x[2] + y[2]) \div 65536) % 65536, (x[2] + y[2]) % 65536)

\* The double nearest to a product in [2^61, 2^62): the nearest multiple of
\* 512, a tie going to the even multiple; given and returned mod 2^32.
RoundTo512(p) ==
    LET rem == p[2] % 512
        odd == (p[2] \div 512) % 2 = 1
        up == rem > 256 \/ (rem = 256 /\ odd)
    IN Add32(Big(p[1], p[2] - rem), Big(0, IF up THEN 512 ELSE 0))

\* next(): this.state = (this.state * 1664525 + 1013904223) % 4294967296, in
\* IEEE double arithmetic (1013904223 = 15470 * 2^16 + 62303). A state below
\* 2^32 is computed exactly (the sum stays below 2^53). A Date.now() seed
\* (between 2^61 / 1664525 and 2^62 / 1664525, the years 2013 to 2057) gives a
\* product that is rounded to a multiple of 512, and a sum that is rounded
\* again: its remainder mod 512 is that of 1013904223, 351, so it rounds up.
rngNext(s) ==
    IF s[1] < 65536
    THEN Add32(MulA(s), Big(15470, 62303))
    ELSE Add32(RoundTo512(MulA(s)), Big(15470, 62303 - 351 + 512))

\* next() < FLOAT_CHANCE, for the state s that next() left: s / 2^32 < 0.07,
\* that is s <= 300647710 = 4587 * 2^16 + 34078.
BelowFloatChance(s) == s[1] < 4587 \/ (s[1] = 4587 /\ s[2] <= 34078)

\* Math.floor(next() * length), for the state s that next() left.
choiceIndex(s, length) == (s[1] * length + (s[2] * length) \div 65536) \div 65536

\* ------------------------------------------------------------- GameEngine
\* An engine is the record [state, rng, seed, lastValidState, errorCount,
\* savedHighScore, actionLog, particleSystem, config, thrown]: the fields of
\* a GameEngine object, with thrown, which is TRUE once a method has ended by
\* throwing. An entry of actionLog is the frame it was logged at: the action
\* of the entry is the argument of handleInput, which no method reads back. A method is an operator from the
\* engine (and the method's arguments) to the engine the call leaves.
\*
\* particleSystem and config are the two objects the engine calls but does not
\* own: of the first the model keeps the calls of createLineExplosion (how many,
\* and the arguments of the last), of the second the value stored under
\* 'game.highScore' and how many times set() stored one.

undefined == <<>>

\* new ParticleSystem(): no explosion yet.
ParticleSystem == [explosions |-> 0, lines |-> <<>>, board |-> <<>>]

\* createLineExplosion called with the board the rows have been taken out of.
createLineExplosionAfterRemoval(particleSystem, lines, board) ==
    [explosions |-> particleSystem.explosions + 1, lines |-> lines,
     board |-> removeClearedLines(board, lines)]

\* particleSystem.createLineExplosion(lines, board).
createLineExplosion(particleSystem, lines, board) ==
    [explosions |-> particleSystem.explosions + 1, lines |-> lines, board |-> board]

\* A config object that holds highScore under 'game.highScore'.
Config(highScore) == [highScore |-> highScore, sets |-> 0]

\* config.set('game.highScore', value).
configSet(config, value) == [highScore |-> value, sets |-> config.sets + 1]

createInitialState(e) ==
    [board |-> EmptyBoard, current |-> NullPiece, next |-> NullPiece,
     hold |-> NullPiece, canHold |-> TRUE, deathPiece |-> NullPiece,
     phase |-> "MENU", score |-> 0, lines |-> 0, level |-> 1, combo |-> 0,
     pieces |-> 0, unlockedPieces |-> StartingPieces,
     gravityAccumulator |-> 0, lockTimer |-> 0, totalLockTime |-> 0,
     clearTimer |-> 0, spawnedInDanger |-> FALSE, startTime |-> -1,
     clearingLines |-> <<>>, seed |-> e.seed, frameCount |-> 0]

\* constructor(config): this.state is built before this.seed is assigned;
\* now1 and now2 are the clock offsets of the two Date.now() reads, highScore
\* is config.get('game.highScore') || 0.
NewGameEngine(now1, now2, highScore) ==
    [state |-> createInitialState([seed |-> undefined]),
     rng |-> SeededRandom(DateNow(now1)), seed |-> DateNow(now2),
     lastValidState |-> <<>>, errorCount |-> 0,
     savedHighScore |-> highScore, actionLog |-> <<>>,
     particleSystem |-> ParticleSystem, config |-> Config(highScore),
     thrown |-> FALSE]

\* weight * 100 of a kind in getNextPiece's pool.
Weight(piece) == IF piece \in Range(SPECIAL) THEN 50 ELSE 100

RECURSIVE PoolLength(_)
PoolLength(available) ==
    IF available = <<>> THEN 0
    ELSE Weight(Head(available)) + PoolLength(Tail(available))

\* weighted[idx] (0-based) of the flat pool built from `available`.
RECURSIVE PoolAt(_, _)
PoolAt(available, idx) ==
    IF idx < Weight(Head(available)) THEN Head(available)
    ELSE PoolAt(Tail(available), idx - Weight(Head(available)))

\* getNextPiece: [piece, rng], the piece drawn and the generator state left.
getNextPiece(e) ==
    LET availablePieces == e.state.unlockedPieces
        hasFloat == "FLOAT" \in Range(availablePieces)
        s1 == IF hasFloat THEN rngNext(e.rng) ELSE e.rng
    IN IF hasFloat /\ BelowFloatChance(s1)
       THEN [piece |-> createPiece("FLOAT"), rng |-> s1]
       ELSE LET s2 == rngNext(s1)
            IN [piece |-> createPiece(PoolAt(availablePieces,
                              choiceIndex(s2, PoolLength(availablePieces)))),
                rng |-> s2]

unlockNewPiece(st) ==
    LET currentPieceCount == Len(st.unlockedPieces) - 8
    IN IF currentPieceCount < Len(piecesToUnlock)
       THEN [st EXCEPT !.unlockedPieces = Append(@, piecesToUnlock[currentPieceCount + 1]),
                       !.level = @ + 1]
       ELSE st

\* The milestone check without the score before the increase.
checkMilestoneFromZero(st, oldScore) ==
    IF st.score \div MILESTONE > 0 THEN unlockNewPiece(st) ELSE st

\* The milestone check that follows every score increase.
checkMilestone(st, oldScore) ==
    IF st.score \div MILESTONE > oldScore \div MILESTONE THEN unlockNewPiece(st) ELSE st

isPartiallyBlocked(board, piece) ==
    \/ canPieceFitAt(board, piece, piece.gridX - 1, piece.gridY)
    \/ canPieceFitAt(board, piece, piece.gridX + 1, piece.gridY)
    \/ canPieceFitAt(board, piece, piece.gridX, piece.gridY + 1)
    \/ tryRotation(board, piece, -1).success
    \/ tryRotation(board, piece, 1).success

\* The high-score update that stores every final score.
updateHighScoreAlways(e) ==
    [e EXCEPT !.savedHighScore = e.state.score,
              !.config = configSet(e.config, e.state.score)]

\* The high-score update on entry to GAME_OVER.
updateHighScore(e) ==
    IF e.state.score > e.savedHighScore
    THEN [e EXCEPT !.savedHighScore = e.state.score,
                   !.config = configSet(e.config, e.state.score)]
    ELSE e

\* spawnNextPiece without the probes: a piece that does not fit at its spawn cell
\* ends the game.
spawnNextPieceOrEnd(e) ==
    IF e.state.phase = "GAME_OVER" THEN e
    ELSE
    LET st == e.state
        newPiece == [st.next EXCEPT !.upMovesUsed = 0]
        drawn == getNextPiece(e)
    IN IF ~canSpawn(st.board, newPiece)
       THEN updateHighScore([e EXCEPT !.state = [st EXCEPT !.deathPiece = newPiece,
                                                           !.phase = "GAME_OVER"]])
       ELSE [e EXCEPT !.state = [st EXCEPT !.current = newPiece,
                                           !.next = drawn.piece,
                                           !.phase = "FALLING",
                                           !.spawnedInDanger = FALSE],
                      !.rng = drawn.rng]

spawnNextPiece(e) ==
    IF e.state.phase = "GAME_OVER" THEN e
    ELSE
    LET st == e.state
        newPiece == [st.next EXCEPT !.upMovesUsed = 0]
        drawn == getNextPiece(e)
    IN IF ~canSpawn(st.board, newPiece)
       THEN IF isPartiallyBlocked(st.board, newPiece)
            THEN [e EXCEPT !.state = [st EXCEPT !.current = newPiece,
                                                !.next = drawn.piece,
                                                !.phase = "LOCKING",
                                                !.lockTimer = 0,
                                                !.totalLockTime = 0,
                                                !.spawnedInDanger = TRUE],
                           !.rng = drawn.rng]
            ELSE updateHighScore([e EXCEPT !.state = [st EXCEPT !.deathPiece = newPiece,
                                                                !.phase = "GAME_OVER"]])
       ELSE [e EXCEPT !.state = [st EXCEPT !.current = newPiece,
                                           !.next = drawn.piece,
                                           !.phase = "FALLING",
                                           !.spawnedInDanger = FALSE],
                      !.rng = drawn.rng]

\* lockPiece that ends the combo when the piece completes no line.
lockPieceEndsCombo(e) ==
    LET st == e.state
        newBoard == placePiece(st.board, st.current)
        clearedLines == findClearedLines(newBoard)
    IN IF st.current.type = null THEN e
       ELSE IF st.current.gridY < 0
       THEN updateHighScore([e EXCEPT !.state = [st EXCEPT !.board = newBoard,
                                                           !.deathPiece = st.current,
                                                           !.phase = "GAME_OVER",
                                                           !.current = NullPiece]])
       ELSE IF Len(clearedLines) > 0
       THEN [e EXCEPT !.particleSystem = createLineExplosion(@, clearedLines, newBoard),
                      !.state = [st EXCEPT !.pieces = @ + 1,
                                           !.spawnedInDanger = FALSE,
                                           !.board = newBoard,
                                           !.current = NullPiece,
                                           !.phase = "CLEARING",
                                           !.clearTimer = 0,
                                           !.clearingLines = clearedLines,
                                           !.canHold = TRUE]]
       ELSE spawnNextPiece([e EXCEPT !.state = [st EXCEPT !.pieces = @ + 1,
                                                          !.spawnedInDanger = FALSE,
                                                          !.board = newBoard,
                                                          !.current = NullPiece,
                                                          !.combo = 0,
                                                          !.canHold = TRUE]])

\* lockPiece without the test of the piece's row.
lockPieceAnywhere(e) ==
    LET st == e.state
        newBoard == placePiece(st.board, st.current)
        clearedLines == findClearedLines(newBoard)
    IN IF st.current.type = null THEN e
       ELSE IF Len(clearedLines) > 0
       THEN [e EXCEPT !.particleSystem = createLineExplosion(@, clearedLines, newBoard),
                      !.state = [st EXCEPT !.pieces = @ + 1,
                                           !.spawnedInDanger = FALSE,
                                           !.board = newBoard,
                                           !.current = NullPiece,
                                           !.phase = "CLEARING",
                                           !.clearTimer = 0,
                                           !.clearingLines = clearedLines,
                                           !.canHold = TRUE]]
       ELSE spawnNextPiece([e EXCEPT !.state = [st EXCEPT !.pieces = @ + 1,
                                                          !.spawnedInDanger = FALSE,
                                                          !.board = newBoard,
                                                          !.current = NullPiece,
                                                          !.canHold = TRUE]])

lockPiece(e) ==
    LET st == e.state
        newBoard == placePiece(st.board, st.current)
        clearedLines == findClearedLines(newBoard)
    IN IF st.current.type = null THEN e
       ELSE IF st.current.gridY < 0
       THEN updateHighScore([e EXCEPT !.state = [st EXCEPT !.board = newBoard,
                                                           !.deathPiece = st.current,
                                                           !.phase = "GAME_OVER",
                                                           !.current = NullPiece]])
       ELSE IF Len(clearedLines) > 0
       THEN [e EXCEPT !.particleSystem = createLineExplosion(@, clearedLines, newBoard),
                      !.state = [st EXCEPT !.pieces = @ + 1,
                                           !.spawnedInDanger = FALSE,
                                           !.board = newBoard,
                                           !.current = NullPiece,
                                           !.phase = "CLEARING",
                                           !.clearTimer = 0,
                                           !.clearingLines = clearedLines,
                                           !.canHold = TRUE]]
       ELSE spawnNextPiece([e EXCEPT !.state = [st EXCEPT !.pieces = @ + 1,
                                                          !.spawnedInDanger = FALSE,
                                                          !.board = newBoard,
                                                          !.current = NullPiece,
                                                          !.canHold = TRUE]])

\* finishClearing with a combo bonus that is not multiplied by the level.
finishClearingFlatCombo(e) ==
    LET st == e.state
        newBoard == removeClearedLines(st.board, st.clearingLines)
        linesCleared == Len(st.clearingLines)
        min4 == IF linesCleared < 4 THEN linesCleared ELSE 4
        lineScore == LINE_VALUES[min4 + 1] * st.level
        comboScore == IF st.combo > 0 THEN COMBO_VALUE * st.combo ELSE 0
        scored == [st EXCEPT !.board = newBoard,
                             !.clearingLines = <<>>,
                             !.lines = @ + linesCleared,
                             !.score = @ + lineScore + comboScore]
        checked == checkMilestone(scored, scored.score - lineScore - comboScore)
    IN spawnNextPiece([e EXCEPT !.state =
           [checked EXCEPT !.combo = IF linesCleared > 0 THEN @ + 1 ELSE 0]])

finishClearing(e) ==
    LET st == e.state
        newBoard == removeClearedLines(st.board, st.clearingLines)
        linesCleared == Len(st.clearingLines)
        min4 == IF linesCleared < 4 THEN linesCleared ELSE 4
        lineScore == LINE_VALUES[min4 + 1] * st.level
        comboScore == IF st.combo > 0 THEN COMBO_VALUE * st.combo * st.level ELSE 0
        scored == [st EXCEPT !.board = newBoard,
                             !.clearingLines = <<>>,
                             !.lines = @ + linesCleared,
                             !.score = @ + lineScore + comboScore]
        checked == checkMilestone(scored, scored.score - lineScore - comboScore)
    IN spawnNextPiece([e EXCEPT !.state =
           [checked EXCEPT !.combo = IF linesCleared > 0 THEN @ + 1 ELSE 0]])

\* hardDrop with the lock inside the test of the distance: a piece that is already at
\* rest stays in play.
hardDropLocksAfterFalling(e) ==
    LET st == e.state
        shadowY == calculateShadow(st.board, st.current)
        dropDistance == shadowY - st.current.gridY
        dropped == checkMilestone([st EXCEPT !.current.gridY = shadowY,
                                             !.score = @ + HARD_DROP * dropDistance],
                                  st.score)
    IN IF st.current.type = null THEN e
       ELSE IF dropDistance > 0 THEN lockPiece([e EXCEPT !.state = dropped])
       ELSE e

hardDrop(e) ==
    LET st == e.state
        shadowY == calculateShadow(st.board, st.current)
        dropDistance == shadowY - st.current.gridY
        dropped == checkMilestone([st EXCEPT !.current.gridY = shadowY,
                                             !.score = @ + HARD_DROP * dropDistance],
                                  st.score)
    IN IF st.current.type = null THEN e
       ELSE IF dropDistance > 0 THEN lockPiece([e EXCEPT !.state = dropped])
       ELSE lockPiece(e)

\* move that restarts the lock delay when the piece cannot move.
moveRestartsLockDelay(e, dx, dy) ==
    LET st == e.state
        piece == st.current
        targetX == piece.gridX + dx
        targetY == piece.gridY + dy
        moved == [piece EXCEPT !.gridX = targetX,
                               !.gridY = targetY,
                               !.upMovesUsed = IF piece.type = "FLOAT" /\ dy < 0
                                               THEN @ + 1 ELSE @]
        canFall == canPieceFitAt(st.board, moved, moved.gridX, moved.gridY + 1)
        st1 == [st EXCEPT !.current = moved,
                          !.gravityAccumulator = IF dy # 0 THEN 0 ELSE @]
        st2 == IF ~canFall
               THEN IF st1.phase = "FALLING"
                    THEN [st1 EXCEPT !.phase = "LOCKING", !.lockTimer = 0]
                    ELSE st1
               ELSE IF st1.phase = "LOCKING"
                    THEN IF ~(piece.type = "FLOAT" /\ dy < 0)
                         THEN [st1 EXCEPT !.phase = "FALLING", !.lockTimer = 0]
                         ELSE st1
                    ELSE st1
        st3 == IF dy > 0
               THEN checkMilestone([st2 EXCEPT !.score = @ + SOFT_DROP * dy], st2.score)
               ELSE st2
        altY == targetY + 1
    IN IF piece.type = null THEN e
       ELSE IF canPieceFitAt(st.board, piece, targetX, targetY)
       THEN [e EXCEPT !.state = st3]
       ELSE IF /\ piece.type = "FLOAT" /\ dx # 0 /\ dy = 0
               /\ altY < 20 /\ canPieceFitAt(st.board, piece, targetX, altY)
       THEN [e EXCEPT !.state.current.gridX = targetX, !.state.current.gridY = altY]
       ELSE [e EXCEPT !.state.lockTimer = 0]

move(e, dx, dy) ==
    LET st == e.state
        piece == st.current
        targetX == piece.gridX + dx
        targetY == piece.gridY + dy
        moved == [piece EXCEPT !.gridX = targetX,
                               !.gridY = targetY,
                               !.upMovesUsed = IF piece.type = "FLOAT" /\ dy < 0
                                               THEN @ + 1 ELSE @]
        canFall == canPieceFitAt(st.board, moved, moved.gridX, moved.gridY + 1)
        st1 == [st EXCEPT !.current = moved,
                          !.gravityAccumulator = IF dy # 0 THEN 0 ELSE @]
        st2 == IF ~canFall
               THEN IF st1.phase = "FALLING"
                    THEN [st1 EXCEPT !.phase = "LOCKING", !.lockTimer = 0]
                    ELSE st1
               ELSE IF st1.phase = "LOCKING"
                    THEN IF ~(piece.type = "FLOAT" /\ dy < 0)
                         THEN [st1 EXCEPT !.phase = "FALLING", !.lockTimer = 0]
                         ELSE st1
                    ELSE st1
        st3 == IF dy > 0
               THEN checkMilestone([st2 EXCEPT !.score = @ + SOFT_DROP * dy], st2.score)
               ELSE st2
        altY == targetY + 1
    IN IF piece.type = null THEN e
       ELSE IF canPieceFitAt(st.board, piece, targetX, targetY)
       THEN [e EXCEPT !.state = st3]
       ELSE IF /\ piece.type = "FLOAT" /\ dx # 0 /\ dy = 0
               /\ altY < 20 /\ canPieceFitAt(st.board, piece, targetX, altY)
       THEN [e EXCEPT !.state.current.gridX = targetX, !.state.current.gridY = altY]
       ELSE e

\* rotate that takes the turned piece where it is, without the fit test.
rotateInPlace(e, direction) ==
    LET st == e.state
        result == [success |-> TRUE, piece |-> rotatePiece(st.current, direction)]
        canFall == canPieceFitAt(st.board, result.piece, result.piece.gridX,
                                 result.piece.gridY + 1)
        st1 == [st EXCEPT !.current = result.piece]
    IN IF st.current.type = null THEN e
       ELSE IF ~result.success THEN e
       ELSE IF ~canFall /\ st.phase = "FALLING"
       THEN [e EXCEPT !.state = [st1 EXCEPT !.phase = "LOCKING", !.lockTimer = 0]]
       ELSE IF canFall /\ st.phase = "LOCKING"
       THEN [e EXCEPT !.state = [st1 EXCEPT !.phase = "FALLING", !.lockTimer = 0]]
       ELSE IF st.phase = "LOCKING"
       THEN [e EXCEPT !.state = [st1 EXCEPT !.lockTimer = 0]]
       ELSE [e EXCEPT !.state = st1]

rotate(e, direction) ==
    LET st == e.state
        result == tryRotation(st.board, st.current, direction)
        canFall == canPieceFitAt(st.board, result.piece, result.piece.gridX,
                                 result.piece.gridY + 1)
        st1 == [st EXCEPT !.current = result.piece]
    IN IF st.current.type = null THEN e
       ELSE IF ~result.success THEN e
       ELSE IF ~canFall /\ st.phase = "FALLING"
       THEN [e EXCEPT !.state = [st1 EXCEPT !.phase = "LOCKING", !.lockTimer = 0]]
       ELSE IF canFall /\ st.phase = "LOCKING"
       THEN [e EXCEPT !.state = [st1 EXCEPT !.phase = "FALLING", !.lockTimer = 0]]
       ELSE IF st.phase = "LOCKING"
       THEN [e EXCEPT !.state = [st1 EXCEPT !.lockTimer = 0]]
       ELSE [e EXCEPT !.state = st1]

\* tryHold that asks only for a current piece.
tryHoldAgain(e) ==
    LET st == e.state
        held == st.current
        newCurrent == IF st.hold.type # null THEN st.hold ELSE st.next
        heldPiece == createPiece(held.type)
        activePiece == createPiece(newCurrent.type)
        holdNow == heldPiece
        drawn == getNextPiece([e EXCEPT !.state.current = activePiece,
                                        !.state.hold = heldPiece])
    IN IF st.current.type = null THEN e
       ELSE [e EXCEPT !.state = [st EXCEPT !.current = activePiece,
                                           !.hold = heldPiece,
                                           !.next = IF holdNow.type # null
                                                    THEN st.next ELSE drawn.piece,
                                           !.canHold = FALSE,
                                           !.phase = "FALLING"],
                      !.rng = IF holdNow.type # null THEN e.rng ELSE drawn.rng]

tryHold(e) ==
    LET st == e.state
        held == st.current
        newCurrent == IF st.hold.type # null THEN st.hold ELSE st.next
        heldPiece == createPiece(held.type)
        activePiece == createPiece(newCurrent.type)
        \* this.state.hold is read after it has been assigned heldPiece
        holdNow == heldPiece
        drawn == getNextPiece([e EXCEPT !.state.current = activePiece,
                                        !.state.hold = heldPiece])
    IN IF st.current.type = null \/ ~st.canHold THEN e
       ELSE [e EXCEPT !.state = [st EXCEPT !.current = activePiece,
                                           !.hold = heldPiece,
                                           !.next = IF holdNow.type # null
                                                    THEN st.next ELSE drawn.piece,
                                           !.canHold = FALSE,
                                           !.phase = "FALLING"],
                      !.rng = IF holdNow.type # null THEN e.rng ELSE drawn.rng]

\* x * m as the pair <<q, r>> standing for q * 10000 + r.
BigProduct(x, m) ==
    LET lo == (x % 10000) * m
    IN <<(x \div 10000) * m + lo \div 10000, lo % 10000>>

BigGeq(a, b) == a[1] > b[1] \/ (a[1] = b[1] /\ a[2] >= b[2])

RECURSIVE Power(_, _)
Power(b, k) == IF k <= 0 THEN 1 ELSE b * Power(b, k - 1)

\* newAccumulator >= gravityDelay, where in milliseconds
\*   gravityDelay = max(50, 1000 - max(elapsed / 2000, score / 200) * 3)
\*                  * 1.05 ^ (level - 1).
\* With n = max(100000, 2000000 - 3 * max(elapsed, 10 * score)) and
\* k = level - 1 the delay is n * 21^k / 20^(k+1) hundredths of a
\* millisecond, so the test is newAccumulator * 20^(k+1) >= n * 21^k.
gravityReached(newAccumulator, elapsed, score, level) ==
    LET m == IF elapsed > 10 * score THEN elapsed ELSE 10 * score
        n == IF 2000000 - 3 * m > 100000 THEN 2000000 - 3 * m ELSE 100000
        k == level - 1
    IN BigGeq(BigProduct(newAccumulator, Power(20, k + 1)),
              BigProduct(n, Power(21, k)))

\* processFalling that lets the piece fall on every tick, whatever time has
\* accumulated.
processFallingEveryTick(e, deltaTime, now) ==
    LET st == e.state
        fallen == [st EXCEPT !.current.gridY = @ + 1, !.gravityAccumulator = 0]
    IN IF st.current.type = null
       THEN [e EXCEPT !.state.phase = "GAME_OVER"]
       ELSE IF canPieceFitAt(st.board, st.current, st.current.gridX, st.current.gridY + 1)
            THEN IF ~canPieceFitAt(st.board, fallen.current, fallen.current.gridX,
                                   fallen.current.gridY + 1)
                 THEN [e EXCEPT !.state = [fallen EXCEPT !.phase = "LOCKING",
                                                         !.lockTimer = 0,
                                                         !.totalLockTime = 0]]
                 ELSE [e EXCEPT !.state = fallen]
            ELSE [e EXCEPT !.state = [st EXCEPT !.phase = "LOCKING",
                                                !.lockTimer = 0,
                                                !.totalLockTime = 0,
                                                !.gravityAccumulator = 0]]

\* now is the clock offset (ms) that Date.now() reads.
processFalling(e, deltaTime, now) ==
    LET st == e.state
        newAccumulator == st.gravityAccumulator + deltaTime
        fallen == [st EXCEPT !.current.gridY = @ + 1, !.gravityAccumulator = 0]
    IN IF st.current.type = null
       THEN [e EXCEPT !.state.phase = "GAME_OVER"]
       ELSE IF gravityReached(newAccumulator, now - st.startTime, st.score, st.level)
       THEN IF canPieceFitAt(st.board, st.current, st.current.gridX, st.current.gridY + 1)
            THEN IF ~canPieceFitAt(st.board, fallen.current, fallen.current.gridX,
                                   fallen.current.gridY + 1)
                 THEN [e EXCEPT !.state = [fallen EXCEPT !.phase = "LOCKING",
                                                         !.lockTimer = 0,
                                                         !.totalLockTime = 0]]
                 ELSE [e EXCEPT !.state = fallen]
            ELSE [e EXCEPT !.state = [st EXCEPT !.phase = "LOCKING",
                                                !.lockTimer = 0,
                                                !.totalLockTime = 0,
                                                !.gravityAccumulator = 0]]
       ELSE [e EXCEPT !.state.gravityAccumulator = newAccumulator]

\* processLocking with the delay of 500 ms for every piece.
processLockingOneDelay(e, deltaTime) ==
    LET st == e.state
        newLockTimer == st.lockTimer + deltaTime
        newTotalLockTime == st.totalLockTime + deltaTime
        lockDelay == LOCK_DELAY
    IN IF st.current = NullPiece
       THEN [e EXCEPT !.thrown = TRUE]   \* this.state.current.gridX of null
       ELSE IF canPieceFitAt(st.board, st.current, st.current.gridX, st.current.gridY + 1)
       THEN [e EXCEPT !.state = [st EXCEPT !.phase = "FALLING",
                                           !.lockTimer = 0,
                                           !.totalLockTime = 0]]
       ELSE IF newTotalLockTime >= MAX_LOCK_TIME THEN lockPiece(e)
       ELSE IF newLockTimer >= lockDelay THEN lockPiece(e)
       ELSE [e EXCEPT !.state = [st EXCEPT !.lockTimer = newLockTimer,
                                           !.totalLockTime = newTotalLockTime]]
processLocking(e, deltaTime) ==
    LET st == e.state
        newLockTimer == st.lockTimer + deltaTime
        newTotalLockTime == st.totalLockTime + deltaTime
        lockDelay == IF st.current.type = "FLOAT" THEN LOCK_DELAY_FLOAT
                     ELSE IF st.spawnedInDanger THEN LOCK_DELAY_DANGER
                     ELSE LOCK_DELAY
    IN IF st.current = NullPiece
       THEN [e EXCEPT !.thrown = TRUE]   \* this.state.current.gridX of null
       ELSE IF canPieceFitAt(st.board, st.current, st.current.gridX, st.current.gridY + 1)
       THEN [e EXCEPT !.state = [st EXCEPT !.phase = "FALLING",
                                           !.lockTimer = 0,
                                           !.totalLockTime = 0]]
       ELSE IF newTotalLockTime >= MAX_LOCK_TIME THEN lockPiece(e)
       ELSE IF newLockTimer >= lockDelay THEN lockPiece(e)
       ELSE [e EXCEPT !.state = [st EXCEPT !.lockTimer = newLockTimer,
                                           !.totalLockTime = newTotalLockTime]]

\* processClearing that ends the animation on its first tick.
processClearingAtOnce(e, deltaTime) == finishClearing(e)

processClearing(e, deltaTime) ==
    LET newClearTimer == e.state.clearTimer + deltaTime
    IN IF newClearTimer >= CLEAR_ANIMATION_TIME THEN finishClearing(e)
       ELSE [e EXCEPT !.state.clearTimer = newClearTimer]

\* validateState that asks for a current piece of a known kind.
validateStateWithPiece(st) ==
    /\ Len(st.board) = 20
    /\ ~(st.score < 0 \/ st.lines < 0)
    /\ st.current.type \in Range(TYPES)

validateState(st) ==
    /\ Len(st.board) = 20
    /\ ~(st.score < 0 \/ st.lines < 0)
    /\ (IF st.current.type # null THEN st.current.type ELSE "I") \in Range(TYPES)

\* cloneState copies the state one level deep: the unlockedPieces array of a
\* snapshot is the array of the state it was taken from, so a later push is
\* seen through the snapshot too.
recoverFromError(e) ==
    IF e.lastValidState # <<>>
    THEN [e EXCEPT !.errorCount = @ + 1,
                   !.state = [e.lastValidState[1] EXCEPT
                                 !.unlockedPieces = e.state.unlockedPieces,
                                 !.current = NullPiece]]
    ELSE [e EXCEPT !.errorCount = @ + 1, !.state = createInitialState(e)]

\* tick that takes a finished game back to the menu.
tickBackToMenu(e, deltaTime, now) ==
    LET snap == IF e.state.frameCount % 60 = 0
                THEN [e EXCEPT !.lastValidState = <<e.state>>]
                ELSE e
        ph == e.state.phase
        stepped == CASE ph = "FALLING" -> processFalling(snap, deltaTime, now)
                     [] ph = "LOCKING" -> processLocking(snap, deltaTime)
                     [] ph = "CLEARING" -> processClearing(snap, deltaTime)
                     [] OTHER -> snap
    IN IF ~validateState(e.state) THEN recoverFromError(e)
       ELSE IF ph = "GAME_OVER" THEN [snap EXCEPT !.state.phase = "MENU"]
       ELSE IF ph = "MENU" \/ ph = "PAUSED" THEN snap
       ELSE IF stepped.thrown THEN stepped
       ELSE [stepped EXCEPT !.state.frameCount = @ + 1]

tick(e, deltaTime, now) ==
    LET snap == IF e.state.frameCount % 60 = 0
                THEN [e EXCEPT !.lastValidState = <<e.state>>]
                ELSE e
        ph == e.state.phase
        stepped == CASE ph = "FALLING" -> processFalling(snap, deltaTime, now)
                     [] ph = "LOCKING" -> processLocking(snap, deltaTime)
                     [] ph = "CLEARING" -> processClearing(snap, deltaTime)
                     [] OTHER -> snap
    IN IF ~validateState(e.state) THEN recoverFromError(e)
       ELSE IF ph = "MENU" \/ ph = "PAUSED" \/ ph = "GAME_OVER" THEN snap
       ELSE IF stepped.thrown THEN stepped
       ELSE [stepped EXCEPT !.state.frameCount = @ + 1]

\* startGame without the phase test: it starts a game from every phase.
startGameAnyPhase(e, now) ==
    LET fresh == [createInitialState(e) EXCEPT !.phase = "FALLING", !.startTime = now]
        first == getNextPiece([e EXCEPT !.state = fresh])
        second == getNextPiece([e EXCEPT !.state = fresh, !.rng = first.rng])
    IN [e EXCEPT !.state = [fresh EXCEPT !.current = first.piece,
                                         !.next = second.piece],
                 !.actionLog = <<>>,
                 !.seed = DateNow(now),
                 !.rng = SeededRandom(DateNow(now)),
                 !.errorCount = 0,
                 !.lastValidState = <<>>]

startGame(e, now) ==
    IF e.state.phase # "MENU" /\ e.state.phase # "GAME_OVER" THEN e
    ELSE
    LET fresh == [createInitialState(e) EXCEPT !.phase = "FALLING", !.startTime = now]
        first == getNextPiece([e EXCEPT !.state = fresh])
        second == getNextPiece([e EXCEPT !.state = fresh, !.rng = first.rng])
    IN [e EXCEPT !.state = [fresh EXCEPT !.current = first.piece,
                                         !.next = second.piece],
                 !.actionLog = <<>>,
                 !.seed = DateNow(now),
                 !.rng = SeededRandom(DateNow(now)),
                 !.errorCount = 0,
                 !.lastValidState = <<>>]

\* togglePause that pauses in every phase but PAUSED.
togglePauseAnyPhase(e) ==
    IF e.state.phase = "PAUSED"
    THEN [e EXCEPT !.state.phase = "FALLING"]
    ELSE [e EXCEPT !.state.phase = "PAUSED"]


togglePause(e) ==
    IF e.state.phase = "FALLING" \/ e.state.phase = "LOCKING"
    THEN [e EXCEPT !.state.phase = "PAUSED"]
    ELSE IF e.state.phase = "PAUSED"
    THEN [e EXCEPT !.state.phase = "FALLING"]
    ELSE e

\* An action is a record [type, dx, dy, direction].
Action(type, dx, dy, direction) ==
    [type |-> type, dx |-> dx, dy |-> dy, direction |-> direction]

\* handleInput that takes every up-pressed command on a FLOAT as a move up.
handleInputNoBudget(e, action, now) ==
    LET logged == [e EXCEPT !.actionLog = Append(@, e.state.frameCount)]
        cur == e.state.current
    IN CASE action.type = "UP_PRESSED" ->
              IF cur.type = "FLOAT"
              THEN move(logged, 0, -1)
              ELSE rotate(logged, 1)
         [] action.type = "MOVE" -> move(logged, action.dx, action.dy)
         [] action.type = "ROTATE" -> rotate(logged, action.direction)
         [] action.type = "HARD_DROP" -> hardDrop(logged)
         [] action.type = "HOLD" -> tryHold(logged)
         [] action.type = "START_GAME" -> startGame(logged, now)
         [] action.type = "PAUSE" -> togglePause(logged)
         [] OTHER -> logged


handleInput(e, action, now) ==
    LET logged == [e EXCEPT !.actionLog = Append(@, e.state.frameCount)]
        cur == e.state.current
    IN CASE action.type = "UP_PRESSED" ->
              IF cur.type = "FLOAT" /\ cur.upMovesUsed < FLOAT_BUDGET
              THEN move(logged, 0, -1)
              ELSE rotate(logged, 1)
         [] action.type = "MOVE" -> move(logged, action.dx, action.dy)
         [] action.type = "ROTATE" -> rotate(logged, action.direction)
         [] action.type = "HARD_DROP" -> hardDrop(logged)
         [] action.type = "HOLD" -> tryHold(logged)
         [] action.type = "START_GAME" -> startGame(logged, now)
         [] action.type = "PAUSE" -> togglePause(logged)
         [] OTHER -> logged

\* Debug command setLevel(level).
setLevel(e, level) ==
    [e EXCEPT !.state.level = IF level > 1 THEN level ELSE 1,
              !.state.lines = (level - 1) * LINES_PER_LEVEL]

\* Debug command forceNextPiece(type).
forceNextPiece(e, type) ==
    IF type \in Range(TYPES) THEN [e EXCEPT !.state.next = createPiece(type)] ELSE e

\* Time a tick of the host loop passes to the engine.
TickStep == 50000

\* ------------------------------------------------------------- games in progress
\* A game in progress is reached by playing a script on a started engine. A
\* placement [next, turns, dx, soft] plays the current piece: the piece after
\* it is named (forceNextPiece), the current piece is rotated turns times,
\* moved dx columns one MOVE command at a time, soft dropped soft rows and
\* hard dropped, and a clearing that the lock starts is run to its end by one
\* tick of the animation time.

Turned(next, turns, dx, soft) == [next |-> next, turns |-> turns, dx |-> dx, soft |-> soft]

Placement(next, dx, soft) == Turned(next, 0, dx, soft)

\* F(v), with v evaluated once before F is applied.
Strict(F(_), v) == CHOOSE y \in {F(x) : x \in {v}} : TRUE

\* A step of a script: a command, or a tick of the host loop.
TickStepOf == Action("TICK", 0, 0, 0)

Step(e, step) ==
    IF step.type = "TICK" THEN tick(e, TickStep, 0) ELSE handleInput(e, step, 0)

RECURSIVE Steps(_, _)
Steps(e, steps) ==
    IF steps = <<>> THEN e
    ELSE Strict(LAMBDA stepped : Steps(stepped, Tail(steps)),
                Strict(LAMBDA from : Step(from, Head(steps)), e))

RECURSIVE Copies(_, _)
Copies(n, x) == IF n <= 0 THEN <<>> ELSE <<x>> \o Copies(n - 1, x)

PlayPiece(e, p) ==
    LET named == forceNextPiece(e, p.next)
        locked == Steps(named,
                        Copies(p.turns, Action("ROTATE", 0, 0, 1))
                        \o Copies(-p.dx, Action("MOVE", -1, 0, 0))
                        \o Copies(p.dx, Action("MOVE", 1, 0, 0))
                        \o Copies(p.soft, Action("MOVE", 0, 1, 0))
                        \o <<Action("HARD_DROP", 0, 0, 0)>>)
    IN IF locked.state.phase = "CLEARING"
       THEN tick(locked, CLEAR_ANIMATION_TIME, 0)
       ELSE locked

\* The board written out cell by cell (the same value, fully evaluated).
RECURSIVE WrittenOut(_, _)
WrittenOut(board, r) ==
    IF r > Len(board) THEN <<>>
    ELSE <<SubSeq(board[r], 1, Len(board[r]))>> \o WrittenOut(board, r + 1)

RECURSIVE Play(_, _)
Play(e, script) ==
    IF script = <<>> THEN e
    ELSE Strict(LAMBDA played :
                    Strict(LAMBDA board :
                               Play([played EXCEPT !.state.board = board], Tail(script)),
                           WrittenOut(played.state.board, 1)),
                Strict(LAMBDA from : PlayPiece(from, Head(script)), e))

\* Five pieces (I, I, O, I, I) that clear two lines and leave the board as it
\* was; `after` is the kind that follows them and soft the rows the first
\* piece is soft dropped.
Cycle(after, soft) ==
    <<Placement("I", -3, soft), Placement("O", 1, 0), Placement("I", 4, 0),
      Placement("I", -3, 0), Placement(after, 1, 0)>>

\* Pieces of kind O dropped at their spawn column, `after` following them.
Stack(n, after) == Copies(n - 1, Placement("O", 0, 0)) \o <<Placement(after, 0, 0)>>

\* The engine of a new game: constructed and started at clock 0 with no stored
\* high score, the piece after the first one named I.
NewGameStart ==
    forceNextPiece(handleInput(NewGameEngine(0, 0, 0), Action("START_GAME", 0, 0, 0), 0),
                   "I")

\* The play of a script [placements, next, then] from the new game: the first
\* tick of the host loop, the placements, the piece after the current one
\* named next (no kind is named "none", which leaves it as drawn), and the
\* steps of then.
Played(script) ==
    Steps(forceNextPiece(Play(tick(NewGameStart, TickStep, 0), script.placements),
                         script.next),
          script.then)

\* k MOVE commands to the right and a tick.
ShiftAndTick(k) == Copies(k, Action("MOVE", 1, 0, 0)) \o <<TickStepOf>>

ThreeCycles == Cycle("I", 0) \o Cycle("I", 0) \o Cycle("I", 0)

FourCycles == ThreeCycles \o Cycle("I", 2)

FiveCycles == FourCycles \o Cycle("I", 0)

FirstLineScript ==
    [placements |-> <<Placement("I", -3, 0), Placement("O", 1, 0)>>,
     next |-> "none", then |-> ShiftAndTick(4)]

TwoLinesScript ==
    [placements |-> <<Placement("I", -3, 0), Placement("I", 1, 0),
                      Placement("I", -3, 0), Placement("O", 1, 0)>>,
     next |-> "none", then |-> ShiftAndTick(4)]

\* Eight I pieces flat in columns 0 to 7, one upright in column 8, one upright
\* above column 9.
FourLinesScript ==
    [placements |-> <<Placement("I", -3, 0), Placement("I", 1, 0),
                      Placement("I", -3, 0), Placement("I", 1, 0),
                      Placement("I", -3, 0), Placement("I", 1, 0),
                      Placement("I", -3, 0), Placement("I", 1, 0),
                      Turned("I", 1, 3, 0)>>,
     next |-> "none",
     then |-> <<Action("ROTATE", 0, 0, 1)>> \o ShiftAndTick(4)]

Near3000ByClearScript ==
    [placements |-> ThreeCycles \o <<Placement("I", -3, 0), Placement("O", 1, 0),
                                     Placement("I", 4, 0), Placement("I", -3, 0)>>,
     next |-> "none", then |-> ShiftAndTick(1)]

Near3000ByDropScript ==
    [placements |-> ThreeCycles \o Cycle("O", 2), next |-> "none",
     then |-> ShiftAndTick(0)]

PlusNextScript ==
    [placements |-> FourCycles \o <<Placement("I", -3, 0)>>,
     next |-> "PLUS", then |-> ShiftAndTick(0)]

Near6000Script ==
    [placements |-> FiveCycles \o <<Placement("I", -3, 0), Placement("O", 1, 0)>>,
     next |-> "none", then |-> ShiftAndTick(4)]

Near9000Script ==
    [placements |-> FiveCycles
                    \o <<Placement("I", -3, 0), Placement("O", 1, 0),
                         Placement("I", 4, 0), Placement("I", -3, 0),
                         Placement("I", 1, 0),
                         Placement("I", -3, 0), Placement("O", 1, 0)>>,
     next |-> "none", then |-> ShiftAndTick(4)]

Near15000Script ==
    [placements |-> FiveCycles \o Cycle("I", 0) \o Cycle("I", 0)
                    \o <<Placement("I", -3, 0), Placement("O", 1, 0)>>,
     next |-> "none", then |-> ShiftAndTick(4)]

TallStackScript ==
    [placements |-> FourCycles \o Stack(10, "O"), next |-> "none",
     then |-> ShiftAndTick(0)]

\* An I at its spawn cell above the stack of TallStack, soft dropped one row:
\* it lies flat in row 0 on the stack, with grid row -1.
FlatOnTopScript ==
    [placements |-> FourCycles \o Stack(10, "I"), next |-> "none",
     then |-> <<TickStepOf, Action("MOVE", 0, 1, 0)>>]


BlockedTopScript ==
    [placements |-> FourCycles \o <<Placement("O", 3, 0)>> \o Stack(10, "O")
                    \o Copies(10, Placement("O", -2, 0)),
     next |-> "PLUS", then |-> ShiftAndTick(2)]

\* A PLUS that spawned in danger above a stack in columns 4 and 5, fell and
\* was soft dropped onto the stack, where it rests with grid row -1.
DangerLandedSteps ==
    <<TickStepOf, Action("MOVE", 0, 1, 0), Action("MOVE", 0, 1, 0)>>

DangerLandedScript ==
    [placements |-> FourCycles \o <<Placement("O", -3, 0)>> \o Stack(9, "PLUS"),
     next |-> "none", then |-> DangerLandedSteps]

\* A FLOAT soft dropped eight rows, moved to the left wall and moved up six
\* times: one upward move is left.
FloatAtWallScript ==
    [placements |-> <<Placement("FLOAT", -3, 0)>>, next |-> "none",
     then |-> Copies(8, Action("MOVE", 0, 1, 0)) \o Copies(4, Action("MOVE", -1, 0, 0))
              \o Copies(6, Action("UP_PRESSED", 0, 0, 0))]

\* A FLOAT soft dropped to the floor, and a tick.
FloatRestingScript ==
    [placements |-> <<Placement("FLOAT", -3, 0)>>, next |-> "none",
     then |-> Copies(20, Action("MOVE", 0, 1, 0)) \o <<TickStepOf>>]

\* The same PLUS after nine ticks, each followed by a rotation that resets
\* the lock timer.
NearLockCapScript ==
    [placements |-> DangerLandedScript.placements, next |-> "none",
     then |-> DangerLandedSteps
              \o <<TickStepOf, Action("ROTATE", 0, 0, 1),
                   TickStepOf, Action("ROTATE", 0, 0, 1),
                   TickStepOf, Action("ROTATE", 0, 0, 1),
                   TickStepOf, Action("ROTATE", 0, 0, 1),
                   TickStepOf, Action("ROTATE", 0, 0, 1),
                   TickStepOf, Action("ROTATE", 0, 0, 1),
                   TickStepOf, Action("ROTATE", 0, 0, 1),
                   TickStepOf, Action("ROTATE", 0, 0, 1),
                   TickStepOf, Action("ROTATE", 0, 0, 1)>>]

\* The games in progress that the exploration starts from, written out. Each
\* is the engine that the play of its script leaves (PlayedAsWritten).

\* A row whose cells in the columns `filled` hold the colour of `type`.
Cells(filled, type) ==
    [c \in 1..WIDTH |-> IF c - 1 \in filled THEN PIECE_DEFINITIONS(type).color ELSE null]

\* rowA, and rowB where rowA is empty.
Over(rowA, rowB) == [c \in 1..WIDTH |-> IF rowA[c] # null THEN rowA[c] ELSE rowB[c]]

\* The state of the new game (NewGameStart.state): as constructed, started at
\* clock 0, the first piece drawn an I and the piece after it named I.
StartedState ==
    [createInitialState([seed |-> DateNow(0)]) EXCEPT
        !.phase = "FALLING", !.startTime = 0,
        !.current = createPiece("I"), !.next = createPiece("I")]

\* A piece of the kind `type` rotated clockwise turns times at its spawn cell.
RECURSIVE TurnedPiece(_, _)
TurnedPiece(type, turns) ==
    IF turns <= 0 THEN createPiece(type)
    ELSE rotatePiece(TurnedPiece(type, turns - 1), 1)

\* The action log of a game in progress, from its runs <<frame, n>>: n entries
\* logged at that frame.
RECURSIVE Logged(_)
Logged(runs) ==
    IF runs = <<>> THEN <<>>
    ELSE Copies(Head(runs)[2], Head(runs)[1]) \o Logged(Tail(runs))

\* The engine of the new game with the fields that play has changed. The
\* snapshot is the one the first tick took, at frame 0.
InProgress(g) ==
    [state |-> [StartedState EXCEPT
                   !.board = Copies(HEIGHT - Len(g.rows), EmptyRow) \o g.rows,
                   !.current = [TurnedPiece(g.current, g.turns) EXCEPT
                                   !.gridX = g.gridX, !.gridY = g.gridY],
                   !.next = createPiece(g.next),
                   !.phase = g.phase,
                   !.score = g.score,
                   !.lines = g.lines,
                   !.combo = g.combo,
                   !.level = g.level,
                   !.unlockedPieces =
                       StartingPieces \o SubSeq(piecesToUnlock, 1, g.level - 1),
                   !.pieces = g.pieces,
                   !.gravityAccumulator = g.gravityAccumulator,
                   !.lockTimer = g.lockTimer,
                   !.totalLockTime = g.totalLockTime,
                   !.spawnedInDanger = g.spawnedInDanger,
                   !.frameCount = g.frameCount],
     rng |-> g.rng, seed |-> DateNow(0), lastValidState |-> <<StartedState>>,
     errorCount |-> 0, savedHighScore |-> 0, actionLog |-> g.actionLog,
     particleSystem |-> ParticleSystem, config |-> Config(0), thrown |-> FALSE]

\* Score 80, an O above the two empty cells of the bottom row.
FirstLine ==
    InProgress([rows |-> <<Cells(0..7, "I")>>,
                current |-> "O", turns |-> 0, gridX |-> 8, gridY |-> -1,
                next |-> "L", phase |-> "FALLING", score |-> 80, lines |-> 0,
                combo |-> 0, level |-> 1, pieces |-> 2,
                gravityAccumulator |-> 0, lockTimer |-> 0,
                totalLockTime |-> 0, spawnedInDanger |-> FALSE,
                frameCount |-> 2, rng |-> <<25338, 28905>>,
                actionLog |-> Logged(<< <<1, 10>> >>)])

\* An O above the two empty cells of the two bottom rows.
TwoLines ==
    InProgress([rows |-> Copies(2, Cells(0..7, "I")),
                current |-> "O", turns |-> 0, gridX |-> 8, gridY |-> -1,
                next |-> "L", phase |-> "FALLING", score |-> 156, lines |-> 0,
                combo |-> 0, level |-> 1, pieces |-> 4,
                gravityAccumulator |-> 0, lockTimer |-> 0,
                totalLockTime |-> 0, spawnedInDanger |-> FALSE,
                frameCount |-> 2, rng |-> <<17878, 34349>>,
                actionLog |-> Logged(<< <<1, 16>> >>)])

\* An upright I above the empty column of the four bottom rows.
FourLines ==
    InProgress([rows |-> Copies(4, Cells(0..8, "I")),
                current |-> "I", turns |-> 1, gridX |-> 7, gridY |-> -1,
                next |-> "J", phase |-> "FALLING", score |-> 332, lines |-> 0,
                combo |-> 0, level |-> 1, pieces |-> 9,
                gravityAccumulator |-> 0, lockTimer |-> 0,
                totalLockTime |-> 0, spawnedInDanger |-> FALSE,
                frameCount |-> 2, rng |-> <<10438, 18000>>,
                actionLog |-> Logged(<< <<1, 34>> >>)])

\* Score 2510, level 1, combo 7, an I above the four empty cells of the
\* bottom row.
Near3000ByClear ==
    InProgress([rows |-> <<Over(Cells(0..3, "I"), Cells(8..9, "O"))>>,
                current |-> "I", turns |-> 0, gridX |-> 4, gridY |-> -1,
                next |-> "O", phase |-> "FALLING", score |-> 2510, lines |-> 7,
                combo |-> 7, level |-> 1, pieces |-> 19,
                gravityAccumulator |-> 0, lockTimer |-> 0,
                totalLockTime |-> 0, spawnedInDanger |-> FALSE,
                frameCount |-> 9, rng |-> <<33545, 4306>>,
                actionLog |-> 
                    Logged(<< <<1, 11>>, <<2, 6>>, <<3, 11>>, <<4, 6>>, <<5, 11>>,
                    <<6, 6>>, <<7, 11>>, <<8, 5>> >>)])

\* Score 2998, level 1, an O at its spawn cell above an empty board.
Near3000ByDrop ==
    InProgress([rows |-> <<>>,
                current |-> "O", turns |-> 0, gridX |-> 4, gridY |-> -2,
                next |-> "S", phase |-> "FALLING", score |-> 2998, lines |-> 8,
                combo |-> 8, level |-> 1, pieces |-> 20,
                gravityAccumulator |-> TickStep, lockTimer |-> 0,
                totalLockTime |-> 0, spawnedInDanger |-> FALSE,
                frameCount |-> 10, rng |-> <<38471, 48084>>,
                actionLog |-> 
                    Logged(<< <<1, 11>>, <<2, 6>>, <<3, 11>>, <<4, 6>>, <<5, 11>>,
                    <<6, 6>>, <<7, 13>>, <<8, 6>> >>)])

\* Score past 3000, level 2, the next piece a PLUS.
PlusNext ==
    InProgress([rows |-> <<Cells(0..3, "I")>>,
                current |-> "I", turns |-> 0, gridX |-> 3, gridY |-> -2,
                next |-> "PLUS", phase |-> "FALLING", score |-> 3038, lines |-> 8,
                combo |-> 8, level |-> 2, pieces |-> 21,
                gravityAccumulator |-> TickStep, lockTimer |-> 0,
                totalLockTime |-> 0, spawnedInDanger |-> FALSE,
                frameCount |-> 10, rng |-> <<26251, 22566>>,
                actionLog |-> 
                    Logged(<< <<1, 11>>, <<2, 6>>, <<3, 11>>, <<4, 6>>, <<5, 11>>,
                    <<6, 6>>, <<7, 13>>, <<8, 6>>, <<9, 4>> >>)])

\* Level 2, one hard drop and a clear away from 6000.
Near6000 ==
    InProgress([rows |-> <<Cells(0..7, "I")>>,
                current |-> "O", turns |-> 0, gridX |-> 8, gridY |-> -2,
                next |-> "L", phase |-> "FALLING", score |-> 5378, lines |-> 10,
                combo |-> 10, level |-> 2, pieces |-> 27,
                gravityAccumulator |-> TickStep, lockTimer |-> 0,
                totalLockTime |-> 0, spawnedInDanger |-> FALSE,
                frameCount |-> 12, rng |-> <<19359, 16783>>,
                actionLog |-> 
                    Logged(<< <<1, 11>>, <<2, 6>>, <<3, 11>>, <<4, 6>>, <<5, 11>>,
                    <<6, 6>>, <<7, 13>>, <<8, 6>>, <<9, 11>>, <<10, 6>>,
                    <<11, 10>> >>)])

\* Level 3, one hard drop and a clear away from 9000.
Near9000 ==
    InProgress([rows |-> <<Cells(0..7, "I")>>,
                current |-> "O", turns |-> 0, gridX |-> 8, gridY |-> -2,
                next |-> "Z", phase |-> "FALLING", score |-> 8728, lines |-> 12,
                combo |-> 12, level |-> 3, pieces |-> 32,
                gravityAccumulator |-> TickStep, lockTimer |-> 0,
                totalLockTime |-> 0, spawnedInDanger |-> FALSE,
                frameCount |-> 14, rng |-> <<52286, 51041>>,
                actionLog |-> 
                    Logged(<< <<1, 11>>, <<2, 6>>, <<3, 11>>, <<4, 6>>, <<5, 11>>,
                    <<6, 6>>, <<7, 13>>, <<8, 6>>, <<9, 11>>, <<10, 6>>,
                    <<11, 11>>, <<12, 6>>, <<13, 10>> >>)])

\* Level 4 with all kinds unlocked, one hard drop and a clear away from 15000.
Near15000 ==
    InProgress([rows |-> <<Cells(0..7, "I")>>,
                current |-> "O", turns |-> 0, gridX |-> 8, gridY |-> -2,
                next |-> "S", phase |-> "FALLING", score |-> 14028, lines |-> 14,
                combo |-> 14, level |-> 4, pieces |-> 37,
                gravityAccumulator |-> TickStep, lockTimer |-> 0,
                totalLockTime |-> 0, spawnedInDanger |-> FALSE,
                frameCount |-> 16, rng |-> <<35361, 35651>>,
                actionLog |-> 
                    Logged(<< <<1, 11>>, <<2, 6>>, <<3, 11>>, <<4, 6>>, <<5, 11>>,
                    <<6, 6>>, <<7, 13>>, <<8, 6>>, <<9, 11>>, <<10, 6>>,
                    <<11, 11>>, <<12, 6>>, <<13, 11>>, <<14, 6>>, <<15, 10>> >>)])

\* A stack of O pieces in columns 4 and 5 up to row 1, an O at its spawn cell.
TallStack ==
    InProgress([rows |-> Copies(18, Cells(4..5, "O")) \o <<Cells(3..6, "I")>>,
                current |-> "O", turns |-> 0, gridX |-> 4, gridY |-> -2,
                next |-> "L", phase |-> "FALLING", score |-> 3236, lines |-> 8,
                combo |-> 8, level |-> 2, pieces |-> 30,
                gravityAccumulator |-> TickStep, lockTimer |-> 0,
                totalLockTime |-> 0, spawnedInDanger |-> FALSE,
                frameCount |-> 10, rng |-> <<24561, 52445>>,
                actionLog |-> 
                    Logged(<< <<1, 11>>, <<2, 6>>, <<3, 11>>, <<4, 6>>, <<5, 11>>,
                    <<6, 6>>, <<7, 13>>, <<8, 6>>, <<9, 10>> >>)])

\* An I flat in row 0 on the stack of TallStack, with grid row -1: every cell
\* of it is on the visible board.
FlatOnTop ==
    InProgress([rows |-> Copies(18, Cells(4..5, "O")) \o <<Cells(3..6, "I")>>,
                current |-> "I", turns |-> 0, gridX |-> 3, gridY |-> -1,
                next |-> "L", phase |-> "LOCKING", score |-> 3237, lines |-> 8,
                combo |-> 8, level |-> 2, pieces |-> 30,
                gravityAccumulator |-> 0, lockTimer |-> 0,
                totalLockTime |-> 0, spawnedInDanger |-> FALSE,
                frameCount |-> 10, rng |-> <<24561, 52445>>,
                actionLog |-> 
                    Logged(<< <<1, 11>>, <<2, 6>>, <<3, 11>>, <<4, 6>>, <<5, 11>>,
                    <<6, 6>>, <<7, 13>>, <<8, 6>>, <<9, 10>>, <<10, 1>> >>)])

\* Stacks of O pieces in columns 2 to 5 up to row 0, an O above columns 6
\* and 7, the next piece a PLUS.
BlockedTop ==
    InProgress([rows |-> Copies(19, Cells(2..5, "O"))
                         \o <<Over(Cells(2..5, "O"), Cells(6..9, "I"))>>,
                current |-> "O", turns |-> 0, gridX |-> 6, gridY |-> -2,
                next |-> "PLUS", phase |-> "FALLING", score |-> 3478, lines |-> 8,
                combo |-> 8, level |-> 2, pieces |-> 41,
                gravityAccumulator |-> TickStep, lockTimer |-> 0,
                totalLockTime |-> 0, spawnedInDanger |-> FALSE,
                frameCount |-> 10, rng |-> <<20154, 61596>>,
                actionLog |-> 
                    Logged(<< <<1, 11>>, <<2, 6>>, <<3, 11>>, <<4, 6>>, <<5, 11>>,
                    <<6, 6>>, <<7, 13>>, <<8, 6>>, <<9, 46>> >>)])

\* A PLUS that spawned in danger, resting with grid row -1 on a stack in
\* columns 4 and 5, the lock timers at 0.
DangerLanded ==
    InProgress([rows |-> Copies(17, Cells(4..5, "O"))
                         \o <<Over(Cells(0..3, "I"), Cells(4..5, "O"))>>,
                current |-> "PLUS", turns |-> 0, gridX |-> 3, gridY |-> -1,
                next |-> "L", phase |-> "LOCKING", score |-> 3256, lines |-> 8,
                combo |-> 8, level |-> 2, pieces |-> 30,
                gravityAccumulator |-> 0, lockTimer |-> 0,
                totalLockTime |-> 0, spawnedInDanger |-> TRUE,
                frameCount |-> 10, rng |-> <<24561, 52445>>,
                actionLog |-> 
                    Logged(<< <<1, 11>>, <<2, 6>>, <<3, 11>>, <<4, 6>>, <<5, 11>>,
                    <<6, 6>>, <<7, 13>>, <<8, 6>>, <<9, 13>>, <<10, 2>> >>)])

\* The same PLUS after nine ticks, each followed by a rotation that reset the
\* lock timer: one tick short of the total lock time cap.
NearLockCap ==
    InProgress([rows |-> Copies(17, Cells(4..5, "O"))
                         \o <<Over(Cells(0..3, "I"), Cells(4..5, "O"))>>,
                current |-> "PLUS", turns |-> 1, gridX |-> 3, gridY |-> -1,
                next |-> "L", phase |-> "LOCKING", score |-> 3256, lines |-> 8,
                combo |-> 8, level |-> 2, pieces |-> 30,
                gravityAccumulator |-> 0, lockTimer |-> 0,
                totalLockTime |-> 9 * TickStep, spawnedInDanger |-> TRUE,
                frameCount |-> 19, rng |-> <<24561, 52445>>,
                actionLog |-> 
                    Logged(<< <<1, 11>>, <<2, 6>>, <<3, 11>>, <<4, 6>>, <<5, 11>>,
                    <<6, 6>>, <<7, 13>>, <<8, 6>>, <<9, 13>>, <<10, 2>>, <<11, 1>>,
                    <<12, 1>>, <<13, 1>>, <<14, 1>>, <<15, 1>>, <<16, 1>>,
                    <<17, 1>>, <<18, 1>>, <<19, 1>> >>)])

\* A FLOAT at the left wall in row 1 that has moved up six times.
FloatAtWall ==
    [InProgress([rows |-> <<Cells(0..3, "I")>>,
                 current |-> "FLOAT", turns |-> 0, gridX |-> 0, gridY |-> 1,
                 next |-> "I", phase |-> "FALLING", score |-> 48, lines |-> 0,
                 combo |-> 0, level |-> 1, pieces |-> 1,
                 gravityAccumulator |-> 0, lockTimer |-> 0,
                 totalLockTime |-> 0, spawnedInDanger |-> FALSE,
                 frameCount |-> 1, rng |-> <<3826, 56671>>,
                 actionLog |-> Logged(<< <<1, 22>> >>)])
        EXCEPT !.state.current.upMovesUsed = 6]

\* A FLOAT that has rested on the floor for one tick.
FloatResting ==
    InProgress([rows |-> <<Cells(0..3, "I")>>,
                current |-> "FLOAT", turns |-> 0, gridX |-> 4, gridY |-> 19,
                next |-> "I", phase |-> "LOCKING", score |-> 60, lines |-> 0,
                combo |-> 0, level |-> 1, pieces |-> 1,
                gravityAccumulator |-> 0, lockTimer |-> TickStep,
                totalLockTime |-> TickStep, spawnedInDanger |-> FALSE,
                frameCount |-> 2, rng |-> <<3826, 56671>>,
                actionLog |-> Logged(<< <<1, 24>> >>)])

\* The written game is the engine that the play of the script leaves, with a
\* particle system that has drawn no explosion yet: the explosions are counted
\* from the written game on.
PlayedAsWritten(written, script) ==
    written = [Played(script) EXCEPT !.particleSystem = ParticleSystem]

GamesInProgress(hs) ==
    {[e EXCEPT !.savedHighScore = hs, !.config = Config(hs)] :
        e \in {FirstLine, TwoLines, FourLines, Near3000ByClear, Near3000ByDrop,
               PlusNext, Near6000, Near9000, Near15000, TallStack, BlockedTop,
               DangerLanded, NearLockCap, FloatAtWall, FloatResting, FlatOnTop}}

\* ------------------------------------------------------------- the engine in play

\* Bounds of the exploration.
MaxSteps == 3
ClockLate == 700000
FrameStep == 1667

VARIABLES
    state,           \* this.state
    rng,             \* this.rng.state
    seed,            \* this.seed
    lastValidState,  \* this.lastValidState: <<>> for null, else <<snapshot>>
    errorCount,      \* this.errorCount
    savedHighScore,  \* this.savedHighScore
    actionLog,       \* this.actionLog: the frames of its entries
    particleSystem,  \* this.particleSystem: the calls of createLineExplosion
    config,          \* this.config: the stored high score and the calls of set()
    thrown,          \* a tick has thrown: the frame loop has ended
    clock,           \* the wall clock, in ms after the epoch of the run
    steps,           \* the commands and ticks taken so far
    last,            \* the command or tick taken last
    replay,          \* a caller of replay(): its arguments, its position, its results
    probe            \* a caller of canPieceFitAt: its arguments and the answer

vars == <<state, rng, seed, lastValidState, errorCount, savedHighScore,
          actionLog, particleSystem, config, thrown, thrown, clock, steps, last, replay,
          probe>>

Engine ==
    [state |-> state, rng |-> rng, seed |-> seed, lastValidState |-> lastValidState,
     errorCount |-> errorCount, savedHighScore |-> savedHighScore,
     actionLog |-> actionLog, particleSystem |-> particleSystem,
     config |-> config, thrown |-> thrown]

Becomes(e) ==
    /\ state' = e.state
    /\ rng' = e.rng
    /\ seed' = e.seed
    /\ lastValidState' = e.lastValidState
    /\ errorCount' = e.errorCount
    /\ savedHighScore' = e.savedHighScore
    /\ actionLog' = e.actionLog
    /\ particleSystem' = e.particleSystem
    /\ config' = e.config
    /\ thrown' = e.thrown

\* The engine's fields are those of e.
Is(e) ==
    /\ state = e.state
    /\ rng = e.rng
    /\ seed = e.seed
    /\ lastValidState = e.lastValidState
    /\ errorCount = e.errorCount
    /\ savedHighScore = e.savedHighScore
    /\ actionLog = e.actionLog
    /\ particleSystem = e.particleSystem
    /\ config = e.config
    /\ thrown = e.thrown

ClockValues == {0, ClockLate}
DeltaTimes == {FrameStep, TickStep}
HighScores == {0, 5000}

\* What the host did last: a command, or a tick of deltaTime.
Did(action, deltaTime) == [action |-> action, deltaTime |-> deltaTime]
Nothing == Did(Action("NONE", 0, 0, 0), 0)

\* No replay is running and no fit test is being made.
NoReplay == [pc |-> "idle", seed |-> <<0, 0>>, log |-> <<>>, pos |-> 1, run |-> 0,
             first |-> <<>>]
NoProbe == [pc |-> "idle", board |-> EmptyBoard, piece |-> NullPiece, x |-> 0, y |-> 0,
            result |-> FALSE]

Init ==
    /\ \E hs \in HighScores :
          \/ \E now \in ClockValues : clock = now /\ Is(NewGameEngine(now, now, hs))
          \/ \E e \in GamesInProgress(hs) : clock = 0 /\ Is(e)
    /\ steps = 0
    /\ last = Nothing
    /\ replay = NoReplay
    /\ probe = NoProbe

Command(action) ==
    /\ steps < MaxSteps
    /\ Becomes(handleInput(Engine, action, clock))
    /\ steps' = steps + 1
    /\ last' = Did(action, 0)
    /\ UNCHANGED <<clock, replay, probe>>

MoveCmd == \E d \in {<<-1, 0>>, <<1, 0>>, <<0, 1>>} : Command(Action("MOVE", d[1], d[2], 0))
RotateCmd == \E direction \in {-1, 1} : Command(Action("ROTATE", 0, 0, direction))
UpPressedCmd == Command(Action("UP_PRESSED", 0, 0, 0))
HardDropCmd == Command(Action("HARD_DROP", 0, 0, 0))
HoldCmd == Command(Action("HOLD", 0, 0, 0))
PauseCmd == Command(Action("PAUSE", 0, 0, 0))

StartCmd == Command(Action("START_GAME", 0, 0, 0))

\* loop() asks for its next frame after update() has returned: a tick that
\* throws is the last.
TickBy(deltaTime) ==
    /\ steps < MaxSteps
    /\ ~thrown
    /\ Becomes(tick(Engine, deltaTime, clock))
    /\ steps' = steps + 1
    /\ last' = Did(TickStepOf, deltaTime)
    /\ UNCHANGED <<clock, replay, probe>>

Tick == \E deltaTime \in DeltaTimes : TickBy(deltaTime)

TimePasses ==
    /\ \E later \in ClockValues : later > clock /\ clock' = later
    /\ UNCHANGED <<state, rng, seed, lastValidState, errorCount, savedHighScore,
                   actionLog, particleSystem, config, thrown, steps, last, replay, probe>>

Next ==
    \/ MoveCmd
    \/ RotateCmd
    \/ UpPressedCmd
    \/ HardDropCmd
    \/ HoldCmd
    \/ PauseCmd
    \/ StartCmd
    \/ Tick
    \/ TimePasses

Spec == Init /\ [][Next]_vars

\* ------------------------------------------------------------- the debug command
\* The game with setLevel among its commands: setLevel(0) leaves state.lines at
\* -10, which validateState refuses at the next tick.

\* DangerLanded 51 ticks of FrameStep later: the PLUS still rests, and the tick
\* at frame 60 has taken its snapshot.
RestingAtFrame61 ==
    LET at60 == [DangerLanded.state EXCEPT !.frameCount = 60,
                                           !.lockTimer = 50 * FrameStep,
                                           !.totalLockTime = 50 * FrameStep]
    IN [DangerLanded EXCEPT !.lastValidState = <<at60>>,
                            !.state = [at60 EXCEPT !.frameCount = 61,
                                                   !.lockTimer = 51 * FrameStep,
                                                   !.totalLockTime = 51 * FrameStep]]

DebugLevels == {0, 2}

DebugInit ==
    /\ \E e \in {NewGameEngine(0, 0, 0), FirstLine, FourLines, Near3000ByDrop,
                RestingAtFrame61} : Is(e)
    /\ clock = 0
    /\ steps = 0
    /\ last = Nothing
    /\ replay = NoReplay
    /\ probe = NoProbe

SetLevelCmd ==
    /\ steps < MaxSteps
    /\ \E level \in DebugLevels : Becomes(setLevel(Engine, level))
    /\ steps' = steps + 1
    /\ last' = Did(Action("setLevel", 0, 0, 0), 0)
    /\ UNCHANGED <<clock, replay, probe>>

SpecDebug == DebugInit /\ [][Next \/ SetLevelCmd]_vars

\* ------------------------------------------------------------- the fit test on its own

\* Bound: how far beyond the walls, the floor and the rows above the board the
\* tested positions go.
FitReach == 2

FitBoards == {EmptyBoard, FirstLine.state.board, TallStack.state.board,
              BlockedTop.state.board}
FitPieces == {TurnedPiece(type, turns) : type \in Range(TYPES), turns \in 0..3}
FitColumns == (-FitReach)..(WIDTH - 1 + FitReach)
FitRows == (-ABOVE_ROWS - FitReach)..(HEIGHT - 1 + FitReach)

FitInit ==
    /\ \E board \in FitBoards, piece \in FitPieces, x \in FitColumns, y \in FitRows :
          probe = [pc |-> "call", board |-> board, piece |-> piece, x |-> x, y |-> y,
                   result |-> FALSE]
    /\ Is(NewGameEngine(0, 0, 0))
    /\ clock = 0
    /\ steps = 0
    /\ last = Nothing
    /\ replay = NoReplay

FitTest ==
    /\ probe.pc = "call"
    /\ probe' = [probe EXCEPT
                    !.pc = "returned",
                    !.result = canPieceFitAt(probe.board, probe.piece, probe.x, probe.y)]
    /\ UNCHANGED <<state, rng, seed, lastValidState, errorCount, savedHighScore,
                   actionLog, particleSystem, config, thrown, clock, steps, last, replay>>

SpecFit == FitInit /\ [][FitTest]_vars

\* ------------------------------------------------------------- rotation on its own

\* The pieces of FitPieces, placed at the tested positions.
KickPieces ==
    {[piece EXCEPT !.gridX = x, !.gridY = y] :
        piece \in FitPieces, x \in FitColumns, y \in FitRows}

KickInit ==
    /\ \E board \in FitBoards, piece \in KickPieces, direction \in {-1, 1} :
          probe = [pc |-> "call", board |-> board, piece |-> piece,
                   direction |-> direction,
                   result |-> [success |-> FALSE, piece |-> NullPiece]]
    /\ Is(NewGameEngine(0, 0, 0))
    /\ clock = 0
    /\ steps = 0
    /\ last = Nothing
    /\ replay = NoReplay

KickTest ==
    /\ probe.pc = "call"
    /\ probe' = [probe EXCEPT
                    !.pc = "returned",
                    !.result = tryRotation(probe.board, probe.piece, probe.direction)]
    /\ UNCHANGED <<state, rng, seed, lastValidState, errorCount, savedHighScore,
                   actionLog, particleSystem, config, thrown, clock, steps, last, replay>>

SpecKick == KickInit /\ [][KickTest]_vars

\* --------------------------------------------------- line detection and removal

LineReach == 2

\* The rows that vary: the top LineReach and the bottom LineReach of the board.
LineIndices == (0..(LineReach - 1)) \cup ((HEIGHT - LineReach)..(HEIGHT - 1))

\* An empty row, a full row, and rows with one hole on either side.
LineRows == {EmptyRow, Cells(0..(WIDTH - 1), "I"), Cells(0..(WIDTH - 2), "L"),
             Cells(1..(WIDTH - 1), "J")}

\* Boards whose other rows hold one cell each, in a column of their own.
LineBoards ==
    {[r \in 1..HEIGHT |-> IF r - 1 \in LineIndices THEN rows[r - 1]
                          ELSE Cells({r % WIDTH}, "T")] :
        rows \in [LineIndices -> LineRows]}

\* The indices of a set as the array findClearedLines builds, in increasing order.
RECURSIVE Ascending(_)
Ascending(indices) ==
    IF indices = {} THEN <<>>
    ELSE LET least == CHOOSE i \in indices : \A j \in indices : i <= j
         IN <<least>> \o Ascending(indices \ {least})

LinesInit ==
    /\ \E board \in LineBoards, indices \in SUBSET LineIndices :
          probe = [pc |-> "call", board |-> board, lines |-> Ascending(indices),
                   found |-> <<>>, removed |-> <<>>, result |-> <<>>]
    /\ Is(NewGameEngine(0, 0, 0))
    /\ clock = 0
    /\ steps = 0
    /\ last = Nothing
    /\ replay = NoReplay

LinesFind ==
    /\ probe.pc = "call"
    /\ probe' = [probe EXCEPT !.pc = "found", !.found = findClearedLines(probe.board)]
    /\ UNCHANGED <<state, rng, seed, lastValidState, errorCount, savedHighScore,
                   actionLog, particleSystem, config, thrown, clock, steps, last, replay>>

\* removeClearedLines with the lines found, as finishClearing calls it, or with
\* the lines of the caller.
LinesRemove ==
    /\ probe.pc = "found"
    /\ \E lines \in {probe.found, probe.lines} :
          probe' = [probe EXCEPT !.pc = "returned", !.removed = lines,
                                 !.result = removeClearedLines(probe.board, lines)]
    /\ UNCHANGED <<state, rng, seed, lastValidState, errorCount, savedHighScore,
                   actionLog, particleSystem, config, thrown, clock, steps, last, replay>>

SpecLines == LinesInit /\ [][LinesFind \/ LinesRemove]_vars

\* ------------------------------------------------------------- replay(seed, actions)

\* Bounds: the longest action log replayed and the latest frame an action is
\* logged at.
MaxLogLen == 3
MaxFrame == 3

ReplaySeeds == {Big(0, 12345), DateNow(0)}
ReplayActions == {Action("HARD_DROP", 0, 0, 0), Action("MOVE", -1, 0, 0),
                  Action("PAUSE", 0, 0, 0)}
LogEntries == {[frame |-> frame, action |-> action] :
                  frame \in {0, MaxFrame}, action \in ReplayActions}

\* The action logs: entries in the order of their frames.
RECURSIVE LogsOfLength(_)
LogsOfLength(n) ==
    IF n = 0 THEN {<<>>}
    ELSE {Append(log, entry) : log \in LogsOfLength(n - 1), entry \in LogEntries}
ReplayLogs ==
    {log \in UNION {LogsOfLength(n) : n \in 0..MaxLogLen} :
        \A i \in 1..(Len(log) - 1) : log[i].frame <= log[i + 1].frame}

ReplayInit ==
    /\ \E S \in ReplaySeeds, log \in ReplayLogs :
          replay = [pc |-> "call", seed |-> S, log |-> log, pos |-> 1, run |-> 1,
                    first |-> <<>>]
    /\ \E now \in ClockValues : clock = now
    /\ Is(NewGameEngine(0, 0, 0))
    /\ steps = 0
    /\ last = Nothing
    /\ probe = NoProbe

\* new GameEngine, engine.seed = seed, engine.rng = new SeededRandom(seed),
\* engine.startGame().
ReplayBegin ==
    /\ replay.pc = "call"
    /\ Becomes(startGame([NewGameEngine(clock, clock, 0) EXCEPT
                             !.seed = replay.seed,
                             !.rng = SeededRandom(replay.seed)], clock))
    /\ replay' = [replay EXCEPT !.pc = "loop"]
    /\ UNCHANGED <<clock, steps, last, probe>>

\* while (engine.state.frameCount < frame) engine.tick(16.67)
ReplayTick ==
    /\ replay.pc = "loop"
    /\ replay.pos <= Len(replay.log)
    /\ state.frameCount < replay.log[replay.pos].frame
    /\ Becomes(tick(Engine, REPLAY_TICK, clock))
    /\ UNCHANGED <<clock, steps, last, replay, probe>>

\* engine.handleInput(action)
ReplayInput ==
    /\ replay.pc = "loop"
    /\ replay.pos <= Len(replay.log)
    /\ ~(state.frameCount < replay.log[replay.pos].frame)
    /\ Becomes(handleInput(Engine, replay.log[replay.pos].action, clock))
    /\ replay' = [replay EXCEPT !.pos = @ + 1]
    /\ UNCHANGED <<clock, steps, last, probe>>

\* return engine.state
ReplayReturn ==
    /\ replay.pc = "loop"
    /\ replay.pos > Len(replay.log)
    /\ replay' = [replay EXCEPT !.pc = "returned",
                                !.first = IF replay.run = 1 THEN <<state>> ELSE @]
    /\ UNCHANGED <<state, rng, seed, lastValidState, errorCount, savedHighScore,
                   actionLog, particleSystem, config, thrown, clock, steps, last, probe>>

\* The caller makes the same call a second time.
ReplayAgain ==
    /\ replay.pc = "returned"
    /\ replay.run = 1
    /\ replay' = [replay EXCEPT !.pc = "call", !.pos = 1, !.run = 2]
    /\ UNCHANGED <<state, rng, seed, lastValidState, errorCount, savedHighScore,
                   actionLog, particleSystem, config, thrown, clock, steps, last, probe>>

ReplayNext ==
    \/ ReplayBegin
    \/ ReplayTick
    \/ ReplayInput
    \/ ReplayReturn
    \/ ReplayAgain
    \/ TimePasses

SpecReplay == ReplayInit /\ [][ReplayNext]_vars

\* ------------------------------------------------------------- two generators

\* Bound: the calls of next() made on a generator.
MaxCalls == 4

\* Seeds below 2^32, as a replay may pass, and seeds read from Date.now(), as
\* the constructor and startGame pass.
RngSeeds ==
    {Big(h, l) : h \in {0, 1, 65535}, l \in {0, 1, 12345, 65535}}
        \cup {DateNow(now) : now \in (0..3) \cup ClockValues}

\* new SeededRandom(seed), with the states next() has left behind it: the
\* value a call returns is the state it leaves, over 2^32.
Generator(S) == [state |-> SeededRandom(S), returned |-> <<>>]

\* A call of next() on a generator.
Draw(g) ==
    LET s == rngNext(g.state)
    IN [state |-> s, returned |-> Append(g.returned, s)]

RngInit ==
    /\ \E S \in RngSeeds :
          probe = [pc |-> "rng", seed |-> S, one |-> Generator(S), two |-> Generator(S)]
    /\ Is(NewGameEngine(0, 0, 0))
    /\ clock = 0
    /\ steps = 0
    /\ last = Nothing
    /\ replay = NoReplay

RngNextOne ==
    /\ probe.pc = "rng"
    /\ Len(probe.one.returned) < MaxCalls
    /\ probe' = [probe EXCEPT !.one = Draw(@)]
    /\ UNCHANGED <<state, rng, seed, lastValidState, errorCount, savedHighScore,
                   actionLog, particleSystem, config, thrown, clock, steps, last, replay>>

RngNextTwo ==
    /\ probe.pc = "rng"
    /\ Len(probe.two.returned) < MaxCalls
    /\ probe' = [probe EXCEPT !.two = Draw(@)]
    /\ UNCHANGED <<state, rng, seed, lastValidState, errorCount, savedHighScore,
                   actionLog, particleSystem, config, thrown, clock, steps, last, replay>>

SpecRng == RngInit /\ [][RngNextOne \/ RngNextTwo]_vars

\* ------------------------------------------------------------- what the game promises

\* This step is a command of the given type, or a tick for "TICK".
Took(type) == steps' = steps + 1 /\ last'.action.type = type

\* The cells a piece covers when the corner of its shape is at column x, row y.
Covers(piece, x, y) == {<<x + c[1], y + c[2]>> : c \in ShapeCells(piece.shape)}

\* The board with the piece's colour written on the cells it covers at (x, y).
Written(board, piece, x, y) ==
    [r \in 1..HEIGHT |-> [c \in 1..WIDTH |->
        IF <<c - 1, r - 1>> \in Covers(piece, x, y) THEN piece.color ELSE board[r][c]]]

\* The row a piece comes to rest on: the row below it does not pass the fit test,
\* every row on the way down to it does.
RestRow(board, piece) ==
    CHOOSE s \in piece.gridY..HEIGHT :
        /\ ~canPieceFitAt(board, piece, piece.gridX, s + 1)
        /\ \A r \in (piece.gridY + 1)..s : canPieceFitAt(board, piece, piece.gridX, r)

\* C10: a hard drop of the current piece from row y takes it to the lowest row s >= y
\* that successive one-row descents through fitting positions reach, adds exactly
\* 2 * (s - y) to the score and locks it there in the same step: the piece is on the
\* board and the phase is FALLING, LOCKING, CLEARING or GAME_OVER.  An O piece over
\* an empty board rests on row 18.
HardDropLands ==
    [][(Took("HARD_DROP") /\ state.current.type # null) =>
          LET piece == state.current
              s == RestRow(state.board, piece)
          IN /\ s >= piece.gridY
             /\ state'.score = state.score + 2 * (s - piece.gridY)
             /\ state'.board = Written(state.board, piece, piece.gridX, s)
             /\ state'.phase \in {"FALLING", "LOCKING", "CLEARING", "GAME_OVER"}
             /\ (piece.type = "O" /\ state.board = EmptyBoard => s = 18)]_vars

\* An O piece hard dropped from above an empty board lies on rows 18 and 19, and the
\* twenty rows it fell have been paid.
HardDropLanded ==
    /\ steps = 1
    /\ Len(actionLog) = 71
    /\ state.pieces = 21
    /\ state.score = 2998 + 40
    /\ state.board = Written(EmptyBoard, createPiece("O"), 4, 18)


\* The rows of a board that are full, and the rows that are not, top to bottom.
IsFullRow(row) == \A c \in 1..WIDTH : row[c] # null
IsOpenRow(row) == ~IsFullRow(row)
FullRowCount(board) == Cardinality({r \in 1..HEIGHT : IsFullRow(board[r])})

\* This step is the tick that ends a clearing animation.
ClearingEnds ==
    /\ Took("TICK")
    /\ state.phase = "CLEARING"
    /\ state.clearTimer + last'.deltaTime >= CLEAR_ANIMATION_TIME

\* C9: when a clearing of n full lines (1 <= n <= 4) is finalized at level v with
\* combo c, the score grows by exactly LINE_VALUES[n] * v, plus 50 * c * v when
\* c > 0, lines grows by n, the n full rows leave the board and n empty rows are
\* added at its top.
LineClearScoring ==
    [][ClearingEnds =>
          LET n == FullRowCount(state.board)
              v == state.level
              c == state.combo
          IN /\ n \in 1..4
             /\ n = Len(state.clearingLines)
             /\ state'.score = state.score + LINE_VALUES[n + 1] * v
                                           + (IF c > 0 THEN 50 * c * v ELSE 0)
             /\ state'.lines = state.lines + n
             /\ state'.board = Copies(n, EmptyRow) \o SelectSeq(state.board, IsOpenRow)]_vars

\* One line cleared at level 1 with combo 0 has paid exactly 100: the O piece that
\* completed the bottom row fell 19 rows (38), and its upper half is what is left.
OneLineCleared ==
    /\ state.lines = 1
    /\ state.level = 1
    /\ state.combo = 1
    /\ state.score = 80 + 38 + 100
    /\ state.pieces = 3
    /\ state.board = Copies(HEIGHT - 1, EmptyRow) \o <<Cells(8..9, "O")>>


\* This step is a tick on a piece in LOCKING that cannot fall.
TickOnRestingPiece ==
    /\ Took("TICK")
    /\ state.phase = "LOCKING"
    /\ state.current.type # null
    /\ ~canPieceFitAt(state.board, state.current, state.current.gridX,
                      state.current.gridY + 1)

\* The lock delay of the piece in play.
DelayOf(st) ==
    IF st.current.type = "FLOAT" THEN LOCK_DELAY_FLOAT
    ELSE IF st.spawnedInDanger THEN LOCK_DELAY_DANGER
    ELSE LOCK_DELAY

\* This step is a tick that runs the lock procedure: the total lock time reaches its
\* cap, or the lock timer reaches the delay.
LockTimeIsUp ==
    /\ TickOnRestingPiece
    /\ \/ state.totalLockTime + last'.deltaTime >= MAX_LOCK_TIME
       \/ state.lockTimer + last'.deltaTime >= DelayOf(state)

\* This step runs the spawn procedure: a lock that completes no line, or the end of
\* a clearing.
SpawnRuns ==
    /\ ~Took("START_GAME")
    /\ state'.clearingLines = <<>>
    /\ state'.pieces = state.pieces + 1 \/ state.clearingLines # <<>>

\* One of the probes of a blocked spawn succeeds.
CanBeNudged(board, piece) ==
    \/ \E d \in {<<-1, 0>>, <<1, 0>>, <<0, 1>>} :
          canPieceFitAt(board, piece, piece.gridX + d[1], piece.gridY + d[2])
    \/ \E direction \in {-1, 1} : tryRotation(board, piece, direction).success

\* C8: a next piece that fits at its spawn cell becomes current with phase FALLING and
\* the danger flag false; one that does not fit but passes a probe (one cell left,
\* right or down, or a rotation either way with kicks) becomes current with phase
\* LOCKING, both lock timers 0 and the danger flag true; when no probe passes the
\* phase becomes GAME_OVER.  A piece at rest under the danger flag is locked by the
\* lock timer at 1000ms and not before.
SpawnProcedure ==
    [][/\ SpawnRuns =>
            LET piece == [state.next EXCEPT !.upMovesUsed = 0]
                board == state'.board
            IN IF canPieceFitAt(board, piece, piece.gridX, piece.gridY)
               THEN /\ state'.current = piece
                    /\ state'.phase = "FALLING"
                    /\ ~state'.spawnedInDanger
               ELSE IF CanBeNudged(board, piece)
               THEN /\ state'.current = piece
                    /\ state'.phase = "LOCKING"
                    /\ state'.lockTimer = 0
                    /\ state'.totalLockTime = 0
                    /\ state'.spawnedInDanger
               ELSE state'.phase = "GAME_OVER"
       /\ (/\ TickOnRestingPiece
           /\ state.spawnedInDanger
           /\ state.current.type # "FLOAT"
           /\ state.totalLockTime + last'.deltaTime < MAX_LOCK_TIME) =>
            IF state.lockTimer + last'.deltaTime < 100000
            THEN state'.current = state.current /\ state'.phase = "LOCKING"
            ELSE state'.current # state.current]_vars

\* A PLUS piece has been spawned in danger: it does not fit at its spawn cell, three
\* rows above the board, and is in LOCKING with the timers at 0.
SpawnedInDanger ==
    /\ steps > 0
    /\ state.phase = "LOCKING"
    /\ state.spawnedInDanger
    /\ state.current = createPiece("PLUS")
    /\ state.lockTimer = 0
    /\ state.totalLockTime = 0
    /\ state.pieces = 22


\* What a death lock of the piece leaves behind.
DeathLocked(piece) ==
    /\ state'.phase = "GAME_OVER"
    /\ state'.board = Written(state.board, piece, piece.gridX, piece.gridY)
    /\ state'.deathPiece = piece
    /\ state'.current = NullPiece
    /\ state'.lines = state.lines
    /\ state'.pieces = state.pieces
    /\ state'.clearingLines = state.clearingLines

\* C7: whenever the lock procedure runs on a piece whose row is negative, by expiry
\* of the lock timer, by the cap on the total lock time or by a hard drop, the phase
\* becomes GAME_OVER, the piece is written to the board, the death piece is that
\* piece, current becomes null, and lines, pieces placed and clearingLines stay as
\* they are.
DeathLock ==
    [][/\ (LockTimeIsUp /\ state.current.gridY < 0) => DeathLocked(state.current)
       /\ (/\ Took("HARD_DROP")
           /\ state.current.type # null
           /\ RestRow(state.board, state.current) < 0) =>
            DeathLocked([state.current EXCEPT
                            !.gridY = RestRow(state.board, state.current)])]_vars

\* The cap on the total lock time has locked a PLUS piece that rested with its top
\* above the board: the game is over and the piece is the death piece.
DeathLockedByCap ==
    /\ steps = 1
    /\ last.action.type = "TICK"
    /\ state.phase = "GAME_OVER"
    /\ state.deathPiece.type = "PLUS"
    /\ state.deathPiece.gridY = -1
    /\ state.current = NullPiece
    /\ state.pieces = 30


\* C6: after a successful hold every further hold command is rejected, leaving
\* current, hold, next and phase as they are, until a piece has been locked; a lock
\* enables hold again.  A hold that succeeds spends canHold, a hold without canHold
\* changes nothing, and only a locked piece (or a new game) brings canHold back.
HoldOnce ==
    [][/\ (Took("HOLD") /\ state.canHold /\ state.current.type # null) =>
            /\ ~state'.canHold
            /\ state'.hold.type = state.current.type
       /\ (Took("HOLD") /\ ~state.canHold) =>
            /\ state'.current = state.current
            /\ state'.hold = state.hold
            /\ state'.next = state.next
            /\ state'.phase = state.phase
            /\ ~state'.canHold
       /\ (~state.canHold /\ state'.canHold) =>
            Took("START_GAME") \/ state'.pieces = state.pieces + 1
       /\ state'.pieces = state.pieces + 1 => state'.canHold]_vars

\* A hold command has just been rejected: the O piece of the first hold is held,
\* the L piece that replaced it is still at its spawn cell.
SecondHoldRejected ==
    /\ steps = 2
    /\ Len(actionLog) = 12
    /\ last.action.type = "HOLD"
    /\ ~state.canHold
    /\ state.hold = createPiece("O")
    /\ state.current = createPiece("L")
    /\ state.pieces = 2


\* The smaller of two numbers.
Least(a, b) == IF a < b THEN a ELSE b

\* C5: whatever soft drops, hard drops and line clears a game has seen, the kinds
\* unlocked beyond the first eight number min(3, floor(score / 3000)) and are the
\* first of PLUS, U, DOT in that order: one kind for each threshold of 3000 points
\* the score has crossed, none below 3000, none twice.
UnlockMilestones ==
    state.unlockedPieces =
        <<"I", "J", "L", "O", "S", "T", "Z", "FLOAT">>
            \o SubSeq(<<"PLUS", "U", "DOT">>, 1, Least(3, state.score \div 3000))

\* A hard drop of 20 rows has taken the score from 2998 over the first threshold,
\* and PLUS is the one kind unlocked.
FirstThresholdCrossed ==
    /\ steps = 1
    /\ last.action.type = "HARD_DROP"
    /\ state.score = 3038
    /\ state.level = 2
    /\ state.unlockedPieces = Append(StartingPieces, "PLUS")

StartDrawsFromSeed ==
    [][(Took("START_GAME") /\ state.phase \in {"MENU", "GAME_OVER"}) =>
          LET first == getNextPiece([state |-> state', rng |-> SeededRandom(seed')])
              second == getNextPiece([state |-> state', rng |-> first.rng])
          IN /\ state'.current = first.piece
             /\ state'.next = second.piece
             /\ rng' = second.rng]_vars

\* C1: two runs of replay(S, L) end with the same board, the same score and the same
\* line count, whatever the wall clock shows during either.
ReplayDeterminism ==
    (replay.pc = "returned" /\ replay.run = 2) =>
        /\ state.board = replay.first[1].board
        /\ state.score = replay.first[1].score
        /\ state.lines = replay.first[1].lines

\* A piece placed with the corner of its shape at (x, y) fits, cell by cell: every
\* occupied cell is in a column of the board and in a row from two above the board
\* down to its floor, and on an empty cell where it is in a row of the board.
FitsCellByCell(board, piece, x, y) ==
    \A i \in 1..Len(piece.shape) : \A j \in 1..Len(piece.shape[i]) :
        piece.shape[i][j] # 0 =>
            LET column == x + j - 1
                row == y + i - 1
            IN /\ 0 <= column /\ column < 10
               /\ -2 <= row /\ row < 20
               /\ (row >= 0 => board[row + 1][column + 1] = null)

\* C3: canPieceFitAt answers true exactly when every occupied cell of the shape lands
\* in a column in [0, 10) and a row in [-2, 20), and on an empty cell of the board
\* when its row is >= 0; the call leaves the board and the piece as they were.
FitTestExact ==
    /\ [](probe.pc = "returned" =>
             (probe.result <=> FitsCellByCell(probe.board, probe.piece, probe.x, probe.y)))
    /\ [][probe'.board = probe.board /\ probe'.piece = probe.piece]_vars

\* The fit test has answered yes for a piece whose cells reach two rows above the
\* board, beside a stack that fills the rows below.
FitAboveBoard ==
    /\ probe.pc = "returned"
    /\ probe.result
    /\ probe.piece = createPiece("O")
    /\ probe.board = BlockedTop.state.board
    /\ probe.x = 0
    /\ probe.y = -2


\* The rotated piece, moved by an offset of a kick table.
Kicked(rotated, kick) ==
    [rotated EXCEPT !.gridX = rotated.gridX + kick.x, !.gridY = rotated.gridY + kick.y]

\* The piece fits on the board where it is.
FitsInPlace(board, piece) == canPieceFitAt(board, piece, piece.gridX, piece.gridY)

\* C11: tryRotation returns the rotated piece at its own position when that fits;
\* otherwise, for every kind but O, the rotated piece moved by the first offset, in
\* the order of the table, that makes it fit, the table being the I table for an I
\* piece and the default table for the others, at the pair of rotations from -> to;
\* it fails when no offset makes it fit.  An O piece never changes position, and the
\* board is left as it was.
WallKickResolution ==
    /\ [](probe.pc = "returned" =>
            LET piece == probe.piece
                rotated == rotatePiece(piece, probe.direction)
                to == (piece.rotation + probe.direction + 4) % 4
                table == IF piece.type = "I" THEN KicksI(piece.rotation, to)
                         ELSE KicksDefault(piece.rotation, to)
                first == {i \in 1..Len(table) :
                             /\ FitsInPlace(probe.board, Kicked(rotated, table[i]))
                             /\ \A j \in 1..(i - 1) :
                                   ~FitsInPlace(probe.board, Kicked(rotated, table[j]))}
            IN /\ Len(table) = 4
               /\ IF FitsInPlace(probe.board, rotated)
                  THEN probe.result.success /\ probe.result.piece = rotated
                  ELSE IF piece.type = "O" \/ first = {}
                  THEN ~probe.result.success
                  ELSE /\ probe.result.success
                       /\ \E i \in first : probe.result.piece = Kicked(rotated, table[i])
               /\ (piece.type = "O" /\ probe.result.success) =>
                     /\ probe.result.piece.gridX = piece.gridX
                     /\ probe.result.piece.gridY = piece.gridY)
    /\ [][probe'.board = probe.board]_vars


\* An I piece that does not fit where it turns, and neither at the first two
\* offsets of its table, was returned at the third.
KickedByThirdOffset ==
    LET rotated == rotatePiece(probe.piece, probe.direction)
        table == KicksI(probe.piece.rotation, rotated.rotation)
    IN /\ probe.pc = "returned"
       /\ probe.piece.type = "I"
       /\ ~FitsInPlace(probe.board, rotated)
       /\ ~FitsInPlace(probe.board, Kicked(rotated, table[1]))
       /\ ~FitsInPlace(probe.board, Kicked(rotated, table[2]))
       /\ probe.result.success
       /\ probe.result.piece = Kicked(rotated, table[3])


\* The k-th of the row indices of the board that are not among the lines.
KeptIndex(lines, k) ==
    CHOOSE i \in 0..(HEIGHT - 1) :
        /\ i \notin Range(lines)
        /\ Cardinality({j \in 0..(i - 1) : j \notin Range(lines)}) = k - 1

\* C12: findClearedLines returns, top to bottom, exactly the indices of the rows
\* whose 10 cells are all non-empty; removeClearedLines(board, L) returns a board
\* of 20 rows whose top |L| rows are empty and whose other rows are the rows of
\* the input that are not in L, with their content and in their order.
LinesFoundAndRemoved ==
    /\ probe.pc \in {"found", "returned"} =>
          /\ Range(probe.found) =
                {i \in 0..(HEIGHT - 1) :
                    \A c \in 1..WIDTH : probe.board[i + 1][c] # null}
          /\ \A m, n \in DOMAIN probe.found : m < n => probe.found[m] < probe.found[n]
    /\ probe.pc = "returned" =>
          /\ Len(probe.result) = HEIGHT
          /\ \A r \in 1..Len(probe.removed) :
                \A c \in 1..WIDTH : probe.result[r][c] = null
          /\ \A k \in 1..(HEIGHT - Len(probe.removed)) :
                probe.result[Len(probe.removed) + k] =
                    probe.board[KeptIndex(probe.removed, k) + 1]

\* Two full rows with rows that stay between them were found and removed.
TwoLinesRemoved ==
    /\ probe.pc = "returned"
    /\ probe.removed = probe.found
    /\ probe.found = <<1, HEIGHT - 1>>
    /\ probe.board[1] # EmptyRow


\* The step takes the game into CLEARING.
EntersClearing == state.phase # "CLEARING" /\ state'.phase = "CLEARING"

EntersGameOver == state.phase # "GAME_OVER" /\ state'.phase = "GAME_OVER"

\* C14: the stored high score is written only by a step into GAME_OVER, once, and
\* only with a final score above the baseline, which becomes this score; the
\* baseline never decreases, and a game that is over has a score that is not
\* above it.
HighScoreSink ==
    /\ [][config' # config =>
             /\ EntersGameOver
             /\ config'.sets = config.sets + 1
             /\ state'.score > savedHighScore
             /\ config'.highScore = state'.score
             /\ savedHighScore' = state'.score]_vars
    /\ [][EntersGameOver /\ state'.score <= savedHighScore => config' = config]_vars
    /\ [][savedHighScore' >= savedHighScore]_vars
    /\ [](state.phase = "GAME_OVER" => savedHighScore >= state.score)

\* A game has ended with a score above the baseline, and the score was stored.
HighScoreStored ==
    /\ state.phase = "GAME_OVER"
    /\ config.sets = 1
    /\ config.highScore = state.score
    /\ savedHighScore = state.score
    /\ state.score > 0


\* The timers, counters and board a tick works on.
Clockwork(st) ==
    <<st.gravityAccumulator, st.lockTimer, st.totalLockTime, st.clearTimer,
      st.frameCount, st.board, st.pieces, st.score>>

\* C15: the pause command takes FALLING and LOCKING to PAUSED and PAUSED to
\* FALLING, and changes nothing else; in MENU, CLEARING and GAME_OVER it changes
\* nothing.  A tick in PAUSED, MENU or GAME_OVER leaves the phase, the gravity
\* accumulator, the lock timer, the total lock time, the clear timer, the frame
\* counter, the board, the piece count and the score as they are.
PauseFreezes ==
    /\ [][Took("PAUSE") =>
             state' = [state EXCEPT !.phase =
                          CASE @ \in {"FALLING", "LOCKING"} -> "PAUSED"
                            [] @ = "PAUSED" -> "FALLING"
                            [] OTHER -> @]]_vars
    /\ [][Took("TICK") /\ state.phase \in {"PAUSED", "MENU", "GAME_OVER"} =>
             /\ state'.phase = state.phase
             /\ Clockwork(state') = Clockwork(state)]_vars

\* A game paused while its piece was resting has been left paused by a tick.
TickedWhilePaused ==
    /\ state.phase = "PAUSED"
    /\ last.action.type = "TICK"
    /\ state.lockTimer > 0
    /\ steps >= 2


\* A snapshot has been restored in a phase of play, and its piece dropped.
AwaitingRespawn ==
    /\ errorCount > 0
    /\ validateState(state)
    /\ state.current = NullPiece
    /\ state.phase \in {"FALLING", "LOCKING"}

\* C16: a tick that finds the state invalid restores the last snapshot without
\* its current piece, or the initial MENU state when there is no snapshot; the
\* tick after a snapshot was restored in FALLING or LOCKING does not throw and
\* does not end the game, so that a piece can be spawned and play continue.
RecoveryResumesPlay ==
    /\ [][Took("TICK") /\ ~validateState(state) =>
             IF lastValidState # <<>>
             THEN /\ state'.current = NullPiece
                  /\ state'.phase = lastValidState[1].phase
                  /\ state'.board = lastValidState[1].board
                  /\ state'.score = lastValidState[1].score
                  /\ state'.lines = lastValidState[1].lines
             ELSE state' = createInitialState(Engine)]_vars
    /\ [][Took("TICK") /\ AwaitingRespawn =>
             ~thrown' /\ state'.phase # "GAME_OVER"]_vars


\* The piece of the state fits at (x, y).
CurrentFitsAt(x, y) == canPieceFitAt(state.board, state.current, x, y)

\* A move by (dx, dy) has nowhere to go: the target does not fit and, for a FLOAT
\* moved sideways, the cell one row below the target does not fit either.
MoveRejected(dx, dy) ==
    /\ state.current # NullPiece
    /\ ~CurrentFitsAt(state.current.gridX + dx, state.current.gridY + dy)
    /\ ~(/\ state.current.type = "FLOAT" /\ dx # 0 /\ dy = 0
         /\ CurrentFitsAt(state.current.gridX + dx, state.current.gridY + 1))

\* A rotation has nowhere to go: the rotated piece fits neither where it turns nor
\* at any of the four offsets of its table.
RotateRejected(direction) ==
    /\ state.current # NullPiece
    /\ LET rotated == rotatePiece(state.current, direction)
       IN /\ ~FitsInPlace(state.board, rotated)
          /\ \A i \in 1..4 :
                ~FitsInPlace(state.board,
                             Kicked(rotated, getWallKicks(state.current, direction)[i]))

\* The up-pressed command is taken as a move up.
UpIsMove == state.current.type = "FLOAT" /\ state.current.upMovesUsed < FLOAT_BUDGET

\* This step is a command that is rejected.
RejectedCommand ==
    \/ Took("MOVE") /\ MoveRejected(last'.action.dx, last'.action.dy)
    \/ Took("ROTATE") /\ RotateRejected(last'.action.direction)
    \/ Took("UP_PRESSED") /\ UpIsMove /\ MoveRejected(0, -1)
    \/ Took("UP_PRESSED") /\ ~UpIsMove /\ RotateRejected(1)
    \/ Took("HOLD") /\ (state.current = NullPiece \/ ~state.canHold)

\* C17: a move that has nowhere to go, a rotation that has nowhere to go and a
\* hold without a current piece or with hold disabled leave the phase, the board,
\* the current, next and held pieces, the score and the timers as they are, and
\* do not throw.
RejectedCommandsChangeNothing ==
    [][RejectedCommand =>
          /\ state'.phase = state.phase
          /\ state'.board = state.board
          /\ state'.current = state.current
          /\ state'.next = state.next
          /\ state'.hold = state.hold
          /\ state'.score = state.score
          /\ state'.gravityAccumulator = state.gravityAccumulator
          /\ state'.lockTimer = state.lockTimer
          /\ state'.totalLockTime = state.totalLockTime
          /\ state'.clearTimer = state.clearTimer
          /\ ~thrown']_vars

\* A FLOAT at the left wall has been asked to move left.
FloatMoveRejected ==
    /\ last.action.type = "MOVE"
    /\ last.action.dx = -1
    /\ state.current.type = "FLOAT"
    /\ state.current.gridX = 0
    /\ steps = 1


\* This step is a move or a rotation, by either command, that succeeds on a piece
\* in LOCKING and leaves it in LOCKING.
AdjustsRestingPiece ==
    /\ Took("MOVE") \/ Took("ROTATE") \/ Took("UP_PRESSED")
    /\ state.phase = "LOCKING"
    /\ state'.phase = "LOCKING"
    /\ state'.current # state.current

\* This step is a tick on a piece in LOCKING that cannot fall, at which the total
\* lock time reaches the cap.
TickAtLockCap ==
    /\ Took("TICK")
    /\ state.phase = "LOCKING"
    /\ ~CurrentFitsAt(state.current.gridX, state.current.gridY + 1)
    /\ state.totalLockTime + last'.deltaTime >= MAX_LOCK_TIME

\* The lock procedure has run in this step: the piece is on the board, or the
\* game is over with the piece as its death piece.
LockProcedureRuns ==
    \/ state'.pieces = state.pieces + 1
    \/ state'.phase = "GAME_OVER" /\ state'.deathPiece = state.current

\* C18: successful moves and rotations of a piece in LOCKING reset the lock
\* timer, and however they are interleaved with ticks the total lock time of a
\* piece in LOCKING stays below 5000 ms; the tick at which it reaches 5000 ms
\* runs the lock procedure.
TotalLockTimeCeiling ==
    /\ [][AdjustsRestingPiece => state'.lockTimer = 0]_vars
    /\ [](state.phase = "LOCKING" => state.totalLockTime < MAX_LOCK_TIME)
    /\ [][TickAtLockCap => LockProcedureRuns]_vars


\* C19: a tick on a piece in LOCKING that cannot fall, whose lock timer no command
\* has reset (it equals the total lock time), runs the lock procedure when the
\* lock timer with the time of the tick reaches the delay of the piece, 500 ms,
\* 600 ms for a FLOAT, 1000 ms under the danger flag, and otherwise adds the
\* time of the tick to the timer and leaves the piece where it is.
LockDelay ==
    [][TickOnRestingPiece /\ state.lockTimer = state.totalLockTime =>
          IF state.lockTimer + last'.deltaTime >= DelayOf(state)
          THEN LockProcedureRuns
          ELSE /\ ~LockProcedureRuns
               /\ state'.phase = "LOCKING"
               /\ state'.current = state.current
               /\ state'.board = state.board
               /\ state'.lockTimer = state.lockTimer + last'.deltaTime]_vars

\* The FLOAT that rested on the floor has been locked there by a tick.
FloatLockedByDelay ==
    /\ last.action.type = "TICK"
    /\ state.pieces = 2
    /\ state.board[HEIGHT][5] = PIECE_DEFINITIONS("FLOAT").color
    /\ state.current.type # "FLOAT"


StartAccepting == {"MENU", "GAME_OVER"}

\* The state a game starts in, but for its clock and its two pieces.
FreshGame(st) ==
    /\ st.phase = "FALLING"
    /\ st.board = EmptyBoard
    /\ st.score = 0
    /\ st.lines = 0
    /\ st.level = 1
    /\ st.combo = 0
    /\ st.pieces = 0
    /\ st.unlockedPieces = StartingPieces
    /\ st.hold = NullPiece
    /\ st.canHold
    /\ st.current # NullPiece
    /\ st.next # NullPiece

\* C21: a start command changes the game state in MENU and GAME_OVER only; in
\* FALLING, LOCKING, CLEARING and PAUSED the state is left as it was. An
\* accepted start gives phase FALLING, an empty board, score 0, lines 0,
\* level 1, combo 0, pieces 0, the eight starting kinds, no held piece, hold
\* enabled, a current and a next piece, and an empty action log.
StartCommand ==
    [][Took("START_GAME") =>
         IF state.phase \in StartAccepting
         THEN FreshGame(state') /\ actionLog' = <<>>
         ELSE /\ state.phase \in {"FALLING", "LOCKING", "CLEARING", "PAUSED"}
              /\ state' = state]_vars

\* A game started again after a game that scored: the start command was taken
\* and the fresh game stands next to the high score of the game before.
StartedAgain ==
    /\ steps > 0
    /\ last.action.type = "START_GAME"
    /\ FreshGame(state)
    /\ Len(actionLog) = 0
    /\ savedHighScore > 0

\* What a finished game shows: phase, board, score, lines and pieces.
Outcome(st) == <<st.phase, st.board, st.score, st.lines, st.pieces>>

\* The steps that are not a start command: ticks and the other commands.
NotStartSteps == {"TICK", "MOVE", "ROTATE", "HARD_DROP", "HOLD", "PAUSE", "UP_PRESSED"}

PieceColors == {PIECE_DEFINITIONS(t).color : t \in Range(TYPES)}

\* C23: in every reachable state the board has exactly 20 rows of exactly 10
\* cells, and each cell is empty or holds the colour of a kind of piece.
BoardShape ==
    /\ DOMAIN state.board = 1..20
    /\ \A r \in DOMAIN state.board :
         /\ DOMAIN state.board[r] = 1..10
         /\ \A c \in DOMAIN state.board[r] :
              state.board[r][c] = null \/ state.board[r][c] \in PieceColors

\* The board after a clearing of four lines was run to its end: the four full
\* rows the explosion was drawn on are gone, four empty rows came in at the
\* top, and the board is the empty one of 20 rows.
BoardAfterClearing ==
    /\ steps > 0
    /\ last.action.type = "TICK"
    /\ state.phase = "FALLING"
    /\ state.lines = 4
    /\ FullRowCount(particleSystem.board) = 4
    /\ state.board = EmptyBoard

\* (s * 1664525 + 1013904223) mod 2^32 in the integers, for s = s[1] * 2^16 + s[2]:
\* 1664525 = 25 * 2^16 + 26125 and 1013904223 = 15470 * 2^16 + 62303, and of
\* s[1] only the part below 2^16 counts.
LcgStep(s) ==
    LET low == 26125 * s[2] + 62303
        high == 26125 * (s[1] % 65536) + 25 * s[2] + 15470 + low \div 65536
    IN Big(high % 65536, low % 65536)

\* The state is an integer in [0, 2^32), so that state / 2^32 is in [0, 1).
InUnitRange(s) == s[1] \in 0..65535 /\ s[2] \in 0..65535

\* Every value returned is in [0, 1), and the state a call left is in [0, 2^32).
ReturnsInUnitRange ==
    \A g \in {probe.one, probe.two} :
        /\ \A i \in 1..Len(g.returned) : InUnitRange(g.returned[i])
        /\ Len(g.returned) > 0 => InUnitRange(g.state)

\* Two generators built with the same seed have returned the same values, call
\* for call.
SameSequence ==
    \A i \in 1..Len(probe.one.returned) :
        i <= Len(probe.two.returned) => probe.one.returned[i] = probe.two.returned[i]

\* A call of next() leaves the state the step of the generator gives.
StepIsLcg ==
    /\ probe'.one # probe.one => probe'.one.state = LcgStep(probe.one.state)
    /\ probe'.two # probe.two => probe'.two.state = LcgStep(probe.two.state)

\* C24: for every integer seed, every call of next() returns a value in [0, 1),
\* the state after each call is an integer in [0, 2^32) equal to
\* (state * 1664525 + 1013904223) mod 2^32, and two generators built with the
\* same seed produce the same sequence.
RandomSequence ==
    /\ []ReturnsInUnitRange
    /\ [][StepIsLcg]_vars
    /\ []SameSequence

\* The commands handleInput is given.
CommandTypes == {"MOVE", "ROTATE", "HARD_DROP", "HOLD", "PAUSE", "UP_PRESSED", "START_GAME"}

\* This step is a start command in a phase that accepts it.
StartTaken == Took("START_GAME") /\ state.phase \in StartAccepting

\* This step is a command that does not start a game.
CommandInGame ==
    /\ steps' = steps + 1
    /\ last'.action.type \in CommandTypes
    /\ ~StartTaken

\* The log before the step is the beginning of the log after it.
LogKept ==
    /\ Len(actionLog') >= Len(actionLog)
    /\ SubSeq(actionLog', 1, Len(actionLog)) = actionLog

\* A command appends one entry, which carries the frame counter of the moment.
CommandLogged == [][CommandInGame => actionLog' = Append(actionLog, state.frameCount)]_vars

\* No step but the start of a game removes or changes an entry.
EntriesKept == [][~StartTaken => LogKept]_vars

\* The frames of the entries do not decrease along the log.
FramesInOrder ==
    \A i \in 1..Len(actionLog) : \A j \in i..Len(actionLog) : actionLog[i] <= actionLog[j]

\* A start command empties the log.
StartEmptiesLog == [][StartTaken => actionLog' = <<>>]_vars

\* C25: every command given to handleInput appends exactly one entry carrying
\* the frame counter of that moment, no entry is removed or changed within a
\* game, the frames in the log are non-decreasing, and a start command empties
\* the log.
ActionLogGrows ==
    /\ CommandLogged
    /\ EntriesKept
    /\ []FramesInOrder
    /\ StartEmptiesLog

\* This step takes a piece into LOCKING: the phase becomes LOCKING, or a piece
\* spawns in LOCKING behind one that was locked from LOCKING.
EntersLocking ==
    /\ state'.phase = "LOCKING"
    /\ state.phase # "LOCKING" \/ state'.pieces # state.pieces

\* C26: every transition into LOCKING, by gravity, by a move, by a rotation or
\* by a danger spawn, leaves both the lock timer and the total lock time at 0.
LockingStartsAtZero ==
    [][EntersLocking => state'.lockTimer = 0 /\ state'.totalLockTime = 0]_vars

\* This step is a tick on a piece in the given phase.
TickOnPiece(phase) ==
    /\ Took("TICK")
    /\ state.phase = phase
    /\ state.current # NullPiece

\* The row below the current piece passes the fit test.
CanFall == CurrentFitsAt(state.current.gridX, state.current.gridY + 1)

\* The time accumulated with this tick has reached the gravity delay.
GravityDue ==
    gravityReached(state.gravityAccumulator + last'.deltaTime,
                   clock - state.startTime, state.score, state.level)

\* One of the two lock timers runs out with this tick.
LockTimeRunsOut ==
    \/ state.lockTimer + last'.deltaTime >= DelayOf(state)
    \/ state.totalLockTime + last'.deltaTime >= MAX_LOCK_TIME

\* A tick in FALLING leaves the piece where it is or one row lower, and one row
\* lower only when the gravity delay is reached and the row below fits.
GravityStep ==
    [][TickOnPiece("FALLING") =>
         /\ state'.pieces = state.pieces
         /\ state'.board = state.board
         /\ \/ state'.current = state.current
            \/ /\ state'.current = [state.current EXCEPT !.gridY = @ + 1]
               /\ GravityDue
               /\ CanFall]_vars

\* A tick in LOCKING on a piece that can fall takes the phase to FALLING with
\* both lock timers at 0, and the piece is not locked.
FallsAgain ==
    [][TickOnPiece("LOCKING") /\ CanFall =>
         /\ state'.phase = "FALLING"
         /\ state'.lockTimer = 0
         /\ state'.totalLockTime = 0
         /\ state'.current = state.current
         /\ state'.pieces = state.pieces
         /\ state'.board = state.board]_vars

\* C27: in FALLING a tick moves the piece down by at most one row, and only
\* when the accumulated time has reached the gravity delay and the row below
\* fits; in LOCKING a tick on which the piece can fall again returns the phase
\* to FALLING with the lock timers reset and without locking the piece, even
\* if the lock timer or the total lock time would have run out on that tick.
GravityAndRefall == GravityStep /\ FallsAgain

\* The FLOAT of FloatResting, moved up by one row after 500 ms at rest and
\* then given a tick of 500 ms: its 600 ms were up on that tick, and it is
\* back in FALLING, unlocked, with both lock timers at 0.
FloatFallsAgain ==
    /\ steps = 2
    /\ last = Did(TickStepOf, TickStep)
    /\ Len(actionLog) = Len(FloatResting.actionLog) + 1
    /\ state.current.type = "FLOAT"
    /\ state.current.upMovesUsed = 1
    /\ state.current.gridY = FloatResting.state.current.gridY - 1
    /\ state.phase = "FALLING"
    /\ state.lockTimer = 0
    /\ state.totalLockTime = 0
    /\ state.pieces = FloatResting.state.pieces

\* The indices of the full rows of a board.
FullRows(board) == {i \in 0..(HEIGHT - 1) : IsFullRow(board[i + 1])}

\* This step puts a piece on the board by the lock procedure.
PlacesPiece == state'.pieces = state.pieces + 1

\* The commands the claim names for CLEARING.
ClearingCommands == {"MOVE", "ROTATE", "HARD_DROP", "HOLD", "PAUSE"}

\* CLEARING is entered by a lock only, and the lock left a full row.
ClearingFollowsLock ==
    [][EntersClearing => PlacesPiece /\ FullRows(state'.board) # {}]_vars

\* In CLEARING clearingLines lists the full rows of the board, each once, and
\* there is no current piece.
ClearingLinesAreFullRows ==
    state.phase = "CLEARING" =>
        /\ Range(state.clearingLines) = FullRows(state.board)
        /\ Len(state.clearingLines) = Cardinality(FullRows(state.board))
        /\ state.clearingLines # <<>>
        /\ state.current = NullPiece

\* CLEARING is left by a tick, the one with which the clear timer reaches the
\* animation time; a tick before that adds its time to the timer.
ClearingTimer ==
    [][state.phase = "CLEARING" =>
         /\ state'.phase # "CLEARING" => Took("TICK")
         /\ Took("TICK") =>
              IF state.clearTimer + last'.deltaTime >= CLEAR_ANIMATION_TIME
              THEN state'.phase # "CLEARING"
              ELSE state' = [state EXCEPT
                                !.clearTimer = @ + last'.deltaTime,
                                !.frameCount = @ + 1]]_vars

\* A move, rotate, hard-drop, hold or pause command in CLEARING leaves the
\* state as it is.
ClearingIgnoresCommands ==
    [][state.phase = "CLEARING" /\ steps' = steps + 1
          /\ last'.action.type \in ClearingCommands => state' = state]_vars

\* A lock that leaves no full row runs the spawn in the same step: the next
\* piece is the current one, or the spawn found no room and the game is over.
LockWithoutLineSpawns ==
    [][PlacesPiece /\ FullRows(state'.board) = {} =>
         \/ /\ state'.phase \in {"FALLING", "LOCKING"}
            /\ state'.current.type = state.next.type
         \/ /\ state'.phase = "GAME_OVER"
            /\ state'.current = NullPiece]_vars

\* C28: the phase is CLEARING only after a lock that produced at least one
\* full line, and then clearingLines is exactly the set of full rows of the
\* board and current is null; the phase leaves CLEARING on the first tick at
\* which the accumulated clear timer reaches 300 ms and not before; in CLEARING
\* the move, rotate, hard-drop, hold and pause commands change nothing; a lock
\* with no full line spawns the next piece in the same step without passing
\* through CLEARING.
ClearingProtocol ==
    /\ ClearingFollowsLock
    /\ []ClearingLinesAreFullRows
    /\ ClearingTimer
    /\ ClearingIgnoresCommands
    /\ LockWithoutLineSpawns

\* A clearing of four lines one tick of 16.67 ms old that was given a hold
\* command: the four bottom rows are still on the board, and there is no piece
\* to hold.
ClearingAfterHold ==
    /\ steps = MaxSteps
    /\ last.action.type = "HOLD"
    /\ state.phase = "CLEARING"
    /\ state.clearTimer = FrameStep
    /\ state.clearingLines = <<16, 17, 18, 19>>
    /\ state.hold = NullPiece

\* C29: within a game the combo counter grows by exactly 1 at each clearing
\* finalization and is changed by nothing else, a lock that clears no line
\* included; a game starts with combo 0, so the combo is the number of
\* clearings finalized so far in the game.
ComboCountsClearings ==
    /\ [][ClearingEnds => state'.combo = state.combo + 1]_vars
    /\ [][~ClearingEnds /\ ~StartTaken => state'.combo = state.combo]_vars
    /\ [][StartTaken => state'.combo = 0]_vars
    /\ [](state.combo >= 0)

\* A piece hard dropped onto rows it does not complete, in a game that has
\* finalized clearings: the piece is on the board, the next one is in play,
\* and the combo is still the one of the clearings before.
ComboOutlastsLock ==
    /\ steps > 0
    /\ last.action.type = "HARD_DROP"
    /\ state.phase \in {"FALLING", "LOCKING"}
    /\ state.current # NullPiece
    /\ FullRows(state.board) = {}
    /\ state.combo > 0

\* replay is in its while loop, waiting for the frame of the command that is
\* next in the log.
ReplayWaits ==
    /\ replay.pc = "loop"
    /\ replay.pos <= Len(replay.log)
    /\ state.frameCount < replay.log[replay.pos].frame

\* This step gives the engine the command of the log that is next.
ReplaysCommand == replay'.pos = replay.pos + 1

\* C30: for every seed and every finite action log, replay terminates, having
\* applied the logged commands in log order, each one after ticking until the
\* frame counter has reached the logged frame. The while loop of replay has
\* one way out, the frame counter reaching the logged frame, so replay
\* terminates only if every tick of the loop counts a frame.
ReplayTerminates ==
    /\ [](ReplayWaits =>
            tick(Engine, REPLAY_TICK, clock).state.frameCount = state.frameCount + 1)
    /\ [][ReplaysCommand =>
            /\ state.frameCount >= replay.log[replay.pos].frame
            /\ actionLog' = Append(actionLog, state.frameCount)]_vars
    /\ [](replay.pc = "returned" =>
            /\ replay.pos = Len(replay.log) + 1
            /\ Len(actionLog) = Len(replay.log))

\* ------------------------------------------------------------- what holds in every state

HasPiece(piece) == piece # NullPiece

\* C31: in every reachable state, a game in FALLING, LOCKING or PAUSED has a
\* current piece and a next piece, and in MENU, CLEARING and GAME_OVER there is
\* no current piece.
PhaseAndPiece ==
    /\ state.phase \in {"FALLING", "LOCKING", "PAUSED"} =>
          HasPiece(state.current) /\ HasPiece(state.next)
    /\ state.phase \in {"MENU", "CLEARING", "GAME_OVER"} => ~HasPiece(state.current)

\* The cells the current piece covers where it is.
CurrentCells == Covers(state.current, state.current.gridX, state.current.gridY)

\* C32: in every reachable state with a current piece, whatever ticks, moves,
\* rotations, holds and spawns (danger spawns included) led to it, every cell of
\* the current piece is in a column from 0 to 9 and in a row below 20, and no cell
\* of it in a row from 0 on lies on a board cell that is not empty.
NoOverlap ==
    HasPiece(state.current) =>
        \A c \in CurrentCells :
            /\ 0 <= c[1] /\ c[1] < WIDTH
            /\ c[2] < HEIGHT
            /\ c[2] >= 0 => state.board[c[2] + 1][c[1] + 1] = null

\* A piece spawned in danger has been moved or turned and now has a cell on the
\* visible board right of a cell of the stack.
DangerPieceBesideStack ==
    /\ HasPiece(state.current)
    /\ state.spawnedInDanger
    /\ last.action.type \in {"MOVE", "ROTATE"}
    /\ \E c \in CurrentCells :
          c[2] >= 0 /\ c[1] > 0 /\ state.board[c[2] + 1][c[1]] # null

\* C33: in every reachable state whose phase is FALLING, LOCKING or PAUSED, no row
\* of the board has all 10 cells non-empty.
NoFullRowInPlay ==
    state.phase \in {"FALLING", "LOCKING", "PAUSED"} => FullRows(state.board) = {}

\* A clearing of this run has ended: the full rows are gone, the rows that were
\* not full remain, and the game is in play again.
InPlayAfterClearing ==
    /\ state.phase \in {"FALLING", "LOCKING"}
    /\ last.action.type = "TICK"
    /\ particleSystem.explosions > 0
    /\ FullRows(particleSystem.board) # {}
    /\ state.lines > 0
    /\ state.board # EmptyBoard

\* The kinds unlocked in a state.
Unlocked(st) == Range(st.unlockedPieces)

LevelCountsUnlocks == state.level = 1 + (Cardinality(Unlocked(state)) - 8)
LevelInRange == 1 <= state.level /\ state.level <= 4
StartingKindsUnlocked == Range(StartingPieces) \subseteq Unlocked(state)
NeverShrinks ==
    [][Took("START_GAME") \/ /\ state'.level >= state.level
                             /\ Unlocked(state) \subseteq Unlocked(state')]_vars

\* C34: in every reachable state of a game the level is 1 plus the number of
\* unlocked kinds beyond the first 8, the level is between 1 and 4, the seven
\* standard kinds and FLOAT are unlocked, and within a game no step makes the
\* level lower or takes a kind out of the unlocked set.
LevelAndUnlockSet ==
    /\ [](LevelCountsUnlocks /\ LevelInRange /\ StartingKindsUnlocked)
    /\ NeverShrinks

\* The commands the claim names for PAUSED.
PausedCommands == {"MOVE", "ROTATE", "UP_PRESSED", "HARD_DROP", "HOLD"}

PausedIgnoresCommands ==
    [][(state.phase = "PAUSED" /\ \E type \in PausedCommands : Took(type)) =>
          /\ state'.phase = "PAUSED"
          /\ state'.board = state.board
          /\ state'.current = state.current
          /\ state'.hold = state.hold
          /\ state'.score = state.score
          /\ state'.pieces = state.pieces]_vars

OnlyPauseLeavesPaused ==
    [][(state.phase = "PAUSED" /\ state'.phase # "PAUSED") => Took("PAUSE")]_vars

\* C35: in PAUSED the move, rotate, up-pressed, hard-drop and hold commands leave
\* the phase PAUSED and the board, the current piece, the held piece, the score
\* and the pieces placed as they are; only the pause command leaves PAUSED.
CommandsWhilePaused == PausedIgnoresCommands /\ OnlyPauseLeavesPaused

\* This step is a hold command that is accepted.
HoldAccepted == Took("HOLD") /\ HasPiece(state.current) /\ state.canHold

\* The draw of a next piece from the generator as it is before the step.
DrawnNow == getNextPiece([state |-> state, rng |-> rng])

HoldStoresCurrent ==
    [][HoldAccepted => /\ state'.hold = createPiece(state.current.type)
                       /\ ~state'.canHold
                       /\ state'.phase = "FALLING"]_vars

HoldTakesHeld ==
    [][(HoldAccepted /\ HasPiece(state.hold)) =>
          /\ state'.current = createPiece(state.hold.type)
          /\ state'.next = state.next]_vars

HoldTakesNext ==
    [][(HoldAccepted /\ ~HasPiece(state.hold)) =>
          state'.current = createPiece(state.next.type)]_vars

HoldDrawsNext ==
    [][(HoldAccepted /\ ~HasPiece(state.hold)) =>
          state'.next = DrawnNow.piece /\ rng' = DrawnNow.rng]_vars

\* C36: an accepted hold stores a fresh piece of the current kind in hold,
\* disables hold and sets phase FALLING; with a piece held, a fresh piece of the
\* held kind at its spawn cell becomes current and next stays; with no piece
\* held, a fresh piece of the next kind becomes current and next is replaced by a
\* newly drawn piece.
HoldSwap == HoldStoresCurrent /\ HoldTakesHeld /\ HoldTakesNext /\ HoldDrawsNext

\* Rows 0 to 2 of the board are empty.
TopIsFree(board) == \A r \in 1..3 : board[r] = EmptyRow

\* The piece the spawn procedure of this step takes from next.
SpawningPiece == [state.next EXCEPT !.upMovesUsed = 0]

KindsFitOnFreeTop(kinds) ==
    TopIsFree(state.board) => \A type \in kinds : canSpawn(state.board, createPiece(type))

SpawnOnFreeTopIsClean ==
    [][(SpawnRuns /\ TopIsFree(state'.board)) =>
          /\ canSpawn(state'.board, SpawningPiece)
          /\ state'.current = SpawningPiece
          /\ state'.phase = "FALLING"
          /\ ~state'.spawnedInDanger]_vars

\* C37: on a board whose rows 0 to 2 are empty a piece of any of the 11 kinds
\* fits at its spawn cell, and the spawn procedure makes it current with phase
\* FALLING and the danger flag false.
CleanSpawnOnFreeTop == [](KindsFitOnFreeTop(Range(TYPES))) /\ SpawnOnFreeTopIsClean

\* This step is a death lock: the lock procedure ends the game without placing the
\* current piece, which it leaves in deathPiece.
DeathLockStep ==
    /\ HasPiece(state.current)
    /\ EntersGameOver
    /\ state'.pieces = state.pieces

\* The cells of the piece the death lock of this step has locked.
DeathCells ==
    Covers(state'.deathPiece, state'.deathPiece.gridX, state'.deathPiece.gridY)

DeathLockHasHiddenCell == [][DeathLockStep => \E c \in DeathCells : c[2] < 0]_vars

PlacedPieceIsEvaluated ==
    [][PlacesPiece => /\ ~DeathLockStep
                      /\ state'.phase = "CLEARING" <=> FullRows(state'.board) # {}]_vars

\* C38: the lock procedure ends the game only when a cell of the locked piece
\* lies above the visible board, in a row below 0; a piece with every cell in
\* rows 0 to 19 is placed as any other: pieces placed grows by one and the full
\* lines are looked for.
DeathLockNeedsHiddenCell == DeathLockHasHiddenCell /\ PlacedPieceIsEvaluated

\* The spawn procedure of this step took the branch of a partially blocked spawn.
BlockedSpawn == SpawnRuns /\ ~canSpawn(state'.board, SpawningPiece)

\* The flag is set by a partially blocked spawn and by no other step.
FlagSetByBlockedSpawn ==
    [][(~state.spawnedInDanger /\ state'.spawnedInDanger) =>
          BlockedSpawn /\ state'.current = SpawningPiece]_vars

CleanSpawnClearsFlag ==
    [][(SpawnRuns /\ HasPiece(state'.current) /\ ~BlockedSpawn) =>
          ~state'.spawnedInDanger]_vars

StartClearsFlag == [][StartTaken => ~state'.spawnedInDanger]_vars

HoldClearsFlag == [][HoldAccepted => ~state'.spawnedInDanger]_vars

\* C39: the danger flag of a current piece is true only if this piece entered
\* play by a partially blocked spawn: no other step sets the flag, and a piece
\* that enters play by a clean spawn, by the start command or by a hold swap
\* has the flag false, and with it the lock delay of its kind, not the 1000 ms
\* of a danger spawn.
DangerFlagAccuracy ==
    /\ FlagSetByBlockedSpawn
    /\ CleanSpawnClearsFlag
    /\ StartClearsFlag
    /\ HoldClearsFlag
====
